---- MODULE Spec2Model ----
(***************************************************************************)
(* Section/test orchestration of the per-peripheral test harnesses.        *)
(*                                                                         *)
(* GPIO runner (src/GpioComprehensiveTest.cpp): a registry test_sections   *)
(* of named sections, each with an enabled flag, a timeout and an ordered  *)
(* list of test callables, and the result list all_results that the        *)
(* runner appends to.  One action per public method; a method that calls   *)
(* other methods (runAllSections -> runSection -> the callables ->         *)
(* printOverallSummary) is one action.                                     *)
(*                                                                         *)
(* The test callables are opaque to the runner (std::function objects).    *)
(* What they do is the environment of a session: `failing` is the set of   *)
(* callables whose body reports passed == false and `ms` the wall time the *)
(* runner measures around a callable.  Both are chosen when the session    *)
(* starts and no method of the runner changes them.                        *)
(*                                                                         *)
(* The command line of the GPIO runner (main) is one action per process.   *)
(* The I2C, WiFi and Bluetooth harnesses                                   *)
(* (src/examples/esp32/main/*ComprehensiveTest.cpp) keep per-section       *)
(* counters in a global array; their app_main is modelled by the steps of  *)
(* run_all_tests and print_test_results.                                   *)
(***************************************************************************)
EXTENDS Integers, Sequences, FiniteSets, TLC

\* ------------------------------------------------------------------ bounds

\* all_results never grows beyond MaxResults entries (guard of the run actions).
MaxResults == 10
\* At most MaxFailing callables report passed == false.
MaxFailing == 1
\* The measured wall time of a callable is at most MaxDuration milliseconds.
MaxDuration == 1
\* runSelectedSections is called with lists of at most MaxSelected sections.
MaxSelected == 2
\* setSectionTimeout is called with timeouts of at most MaxTimeout seconds.
MaxTimeout == 1
\* SPI runs are followed until this many result arrays are unreachable.
MaxLeaked == 1
\* A section of a host program collects at most this many errors.
MaxErrors == 2
\* The log buffer is followed while it is shorter than this before a call.
MaxBuffer == 2
\* The width of an int in the canvas model, in bits.
IntBits == 4
\* Canvases are at most this wide and this high.
MaxSide == 2

\* ------------------------------------------------- enum class GpioTestSection

BASIC_GPIO_OPERATIONS == 0
GPIO_INTERRUPTS == 1
GPIO_PWM_FUNCTIONALITY == 2
GPIO_ANALOG_READS == 3
GPIO_STRESS_TESTING == 4
GPIO_EDGE_CASES == 5
ALL_SECTIONS == 6

\* The enumerators, which are the keys of test_sections after construction.
GpioTestSection == BASIC_GPIO_OPERATIONS..ALL_SECTIONS

\* ------------------------------------------------------------ the registry

\* Number of callables populateTestSections stores in each section.
TestCount(section) ==
    CASE section = BASIC_GPIO_OPERATIONS -> 5
      [] section = GPIO_INTERRUPTS -> 5
      [] section = GPIO_PWM_FUNCTIONALITY -> 4
      [] section = GPIO_ANALOG_READS -> 4
      [] section = GPIO_STRESS_TESTING -> 4
      [] section = GPIO_EDGE_CASES -> 4
      [] OTHER -> 0

\* A callable is identified by its section and its position in the section.
SectionTests(section) == [i \in 1..TestCount(section) |-> <<section, i>>]

\* The timeout each section is constructed with.
InitialTimeout(section) ==
    CASE section = BASIC_GPIO_OPERATIONS -> 25
      [] section = GPIO_INTERRUPTS -> 35
      [] section = GPIO_PWM_FUNCTIONALITY -> 40
      [] section = GPIO_ANALOG_READS -> 30
      [] section = GPIO_STRESS_TESTING -> 120
      [] section = GPIO_EDGE_CASES -> 20
      [] OTHER -> 0

\* test_sections after initializeTestSections() and populateTestSections().
initializeTestSections ==
    [section \in GpioTestSection |->
        [tests |-> SectionTests(section),
         enabled |-> TRUE,
         timeout_seconds |-> InitialTimeout(section)]]

\* The sections a caller names in runSection and enableSection: a five-test
\* section, a four-test section, the synthetic entry without tests, and a
\* value of the enum's underlying type that is no key of the map.
\* The other four sections are run and switched by the sweeps only.
NamedSections ==
    {BASIC_GPIO_OPERATIONS, GPIO_EDGE_CASES, ALL_SECTIONS, ALL_SECTIONS + 1}

\* The callables that may report passed == false: the first and the last
\* callable of each section a caller names.
FailCandidates ==
    UNION {{SectionTests(s)[1], SectionTests(s)[TestCount(s)]} :
             s \in {n \in NamedSections : TestCount(n) > 0}}

\* ---------------------------------------------------------- the environment

\* The subsets of FailCandidates with at most k elements.
RECURSIVE SetsUpTo(_)
SetsUpTo(k) ==
    IF k = 0 THEN {{}}
    ELSE LET smaller == SetsUpTo(k - 1)
         IN smaller \cup {S \cup {t} : S \in smaller, t \in FailCandidates}

\* The wall time measured around a callable: none or the longest.
Durations == {0, MaxDuration}

\* The sections a caller lists in runSelectedSections: the named sections
\* that hold callables, and the value that is no key of the map.
SelectableSections == NamedSections \ {ALL_SECTIONS}

\* The timeouts a caller sets: none, which is below every measured time that
\* is not zero, and the longest.
Timeouts == {0, MaxTimeout}

\* The lists of selectable sections of length 0..k.
RECURSIVE ListsUpTo(_)
ListsUpTo(k) ==
    IF k = 0 THEN {<<>>}
    ELSE LET shorter == ListsUpTo(k - 1)
         IN shorter \cup {Append(L, s) : L \in shorter, s \in SelectableSections}

\* ------------------------------------------------------------------- state

VARIABLES
    test_sections,   \* std::map<GpioTestSection, TestSection>
    all_results,     \* std::vector<TestResult>
    call,            \* the public method called last: [op, arg, exit]
    invoked,         \* the callables the last call invoked, in order
    rates,           \* the success rates the last call printed, in order
    results_before,  \* all_results.size() when the last call started
    listed,          \* the sections the last call listed, in order
    exit_status,     \* the status main() returned, Running before it returns
    failing,         \* environment: the callables that report passed == false
    throwing,        \* environment: the callables that throw an exception
    ms,              \* environment: the wall time measured around a callable
    harness,         \* the ESP32 harness program that runs, "none" for GPIO
    esp_test_sections, \* its global test_section_t test_sections[]
    esp_next,        \* the loop index i of its run_all_tests()
    esp_totals,      \* the totals its print_test_results() printed
    esp_call,        \* its function that returned last
    wifi,            \* the statics of the WiFi and Bluetooth drivers' glue
    pwm,             \* the statics of PwmComprehensiveTest.cpp
    spi,             \* the globals of main/SpiComprehensiveTest.cpp
    config,          \* the GPIO runner's TestConfig config
    runner,          \* an AsciiTestRunner or a LoggerTestRunner
    logger,          \* a Logger
    generator        \* an AsciiArtGenerator

\* The variables of the ESP32 harness programs.
espvars == <<harness, esp_test_sections, esp_next, esp_totals, esp_call>>

\* The variables of the driver glue of the harness programs.
drivervars == <<wifi, pwm, spi>>

\* The variables of the host-side test programs.
hostvars == <<runner, logger, generator>>

vars == <<test_sections, all_results, call, invoked, rates, results_before,
          listed, exit_status, failing, throwing, ms, espvars, drivervars,
          config, hostvars>>

\* The variables of the GPIO runner.
gpiovars == <<test_sections, all_results, call, invoked, rates, results_before,
              listed, exit_status, failing, throwing, ms>>

\* The environment as the runner's loop reads it.
Env == [failing |-> failing, throwing |-> throwing, ms |-> ms]

\* exit_status while no main() has returned.
Running == -1

\* ------------------------------------------------------- double arithmetic

\* The value of the double expression (num / den) for integers num >= 0 and
\* den >= 0: IEEE 754 division does not trap, 0.0 / 0 is NaN and x / 0 is
\* +infinity; a finite quotient is kept as its integral part.
NaN == [nan |-> TRUE, inf |-> FALSE, value |-> 0]
Infinity == [nan |-> FALSE, inf |-> TRUE, value |-> 0]
Finite(v) == [nan |-> FALSE, inf |-> FALSE, value |-> v]
DoubleDiv(num, den) ==
    IF den = 0 THEN (IF num = 0 THEN NaN ELSE Infinity)
    ELSE Finite(num \div den)

\* ------------------------------------------------------------ the runner

\* The TestResult a callable returns when it returns: the registered stubs
\* return {name, true, "Test passed successfully", 0.0}; a callable of
\* `failing` returns passed == false with a message of its own.
PassedMessage == "Test passed successfully"
FailedMessage == "boom"
ReportedTime == 0
Callable(test, env) ==
    [test_name |-> test,
     passed |-> test \notin env.failing,
     message |-> IF test \notin env.failing THEN PassedMessage ELSE FailedMessage,
     execution_time_ms |-> ReportedTime]

\* The local counters of runSection before its loop.
NoResults == [results |-> <<>>, invoked |-> <<>>, passed |-> 0, failed |-> 0,
              threw |-> FALSE]

\* RunTests with a loop that returns at the first failed result.
RECURSIVE RunTestsStopOnFailure(_, _, _, _)
RunTestsStopOnFailure(tests, i, acc, env) ==
    IF i > Len(tests) THEN acc
    ELSE LET returned == Callable(tests[i], env)
             result == [returned EXCEPT !.execution_time_ms = env.ms]
             next == [results |-> Append(acc.results, result),
                      invoked |-> Append(acc.invoked, tests[i]),
                      passed |-> acc.passed + (IF result.passed THEN 1 ELSE 0),
                      failed |-> acc.failed + (IF result.passed THEN 0 ELSE 1),
                      threw |-> FALSE]
         IN IF result.passed
            THEN RunTestsStopOnFailure(tests, i + 1, next, env)
            ELSE next

\* RunTests with a loop that starts at the second callable.
RECURSIVE RunTestsSkipFirst(_, _, _, _)
RunTestsSkipFirst(tests, i, acc, env) ==
    IF i > Len(tests) THEN acc
    ELSE IF i = 1 THEN RunTestsSkipFirst(tests, 2, acc, env)
    ELSE LET returned == Callable(tests[i], env)
             result == [returned EXCEPT !.execution_time_ms = env.ms]
         IN RunTestsSkipFirst(tests, i + 1,
                [results |-> Append(acc.results, result),
                 invoked |-> Append(acc.invoked, tests[i]),
                 passed |-> acc.passed + (IF result.passed THEN 1 ELSE 0),
                 failed |-> acc.failed + (IF result.passed THEN 0 ELSE 1),
                 threw |-> FALSE],
                env)

\* RunTests that stores the result as the callable returned it, with the
\* duration the callable reported.
RECURSIVE RunTestsKeepsReportedTime(_, _, _, _)
RunTestsKeepsReportedTime(tests, i, acc, env) ==
    IF i > Len(tests) THEN acc
    ELSE LET result == Callable(tests[i], env)
         IN RunTestsKeepsReportedTime(tests, i + 1,
                [results |-> Append(acc.results, result),
                 invoked |-> Append(acc.invoked, tests[i]),
                 passed |-> acc.passed + (IF result.passed THEN 1 ELSE 0),
                 failed |-> acc.failed + (IF result.passed THEN 0 ELSE 1),
                 threw |-> FALSE],
                env)

\* RunTests that leaves the loop after a failed test when the configuration
\* asks for it.
RECURSIVE RunTestsHonoursStopOnFailure(_, _, _, _)
RunTestsHonoursStopOnFailure(tests, i, acc, env) ==
    IF i > Len(tests) THEN acc
    ELSE LET returned == Callable(tests[i], env)
             result == [returned EXCEPT !.execution_time_ms = env.ms]
             next == [results |-> Append(acc.results, result),
                      invoked |-> Append(acc.invoked, tests[i]),
                      passed |-> acc.passed + (IF result.passed THEN 1 ELSE 0),
                      failed |-> acc.failed + (IF result.passed THEN 0 ELSE 1),
                      threw |-> FALSE]
         IN IF ~result.passed /\ config.stop_on_failure
            THEN next
            ELSE RunTestsHonoursStopOnFailure(tests, i + 1, next, env)

\* The loop of runSection over test_section.tests, from index i on.
\* acc = [results, invoked, passed, failed, threw].  The loop body has no
\* try block: an exception a callable throws leaves the loop before the
\* result is stored.
RECURSIVE RunTests(_, _, _, _)
RunTests(tests, i, acc, env) ==
    IF i > Len(tests) THEN acc
    ELSE IF tests[i] \in env.throwing
    THEN [acc EXCEPT !.invoked = Append(@, tests[i]), !.threw = TRUE]
    ELSE LET returned == Callable(tests[i], env)
             result == [returned EXCEPT !.execution_time_ms = env.ms]
         IN RunTests(tests, i + 1,
                [results |-> Append(acc.results, result),
                 invoked |-> Append(acc.invoked, tests[i]),
                 passed |-> acc.passed + (IF result.passed THEN 1 ELSE 0),
                 failed |-> acc.failed + (IF result.passed THEN 0 ELSE 1),
                 threw |-> FALSE],
                env)

\* DoRunSection without the test of the enabled flag.
DoRunSectionIgnoreEnabled(section, m, env) ==
    IF section \notin DOMAIN m.test_sections
    THEN [m EXCEPT !.exit = "not_found"]
    ELSE LET test_section == m.test_sections[section]
             r == RunTests(test_section.tests, 1,
                           NoResults, env)
         IN [m EXCEPT !.all_results = @ \o r.results,
                      !.invoked = @ \o r.invoked,
                      !.rates = Append(@, DoubleDiv(r.passed * 100,
                                           Len(test_section.tests))),
                      !.exit = "completed"]

\* DoRunSection that starts an enabled section's run from an empty all_results.
DoRunSectionClearsFirst(section, m, env) ==
    IF section \notin DOMAIN m.test_sections
    THEN [m EXCEPT !.exit = "not_found"]
    ELSE LET test_section == m.test_sections[section] IN
         IF ~test_section.enabled
         THEN [m EXCEPT !.exit = "disabled"]
         ELSE LET r == RunTests(test_section.tests, 1,
                           NoResults, env)
              IN [m EXCEPT !.all_results = r.results,
                           !.invoked = @ \o r.invoked,
                           !.rates = Append(@, DoubleDiv(r.passed * 100,
                                                Len(test_section.tests))),
                           !.exit = "completed"]

\* DoRunSection without the find() test: operator[] inserts an entry for a
\* key the map does not hold, and the run goes on with that entry.
DoRunSectionNoFind(section, m, env) ==
    LET sections == IF section \in DOMAIN m.test_sections THEN m.test_sections
                    ELSE [k \in DOMAIN m.test_sections \cup {section} |->
                            IF k = section
                            THEN [tests |-> <<>>, enabled |-> TRUE,
                                  timeout_seconds |-> 30]
                            ELSE m.test_sections[k]]
        test_section == sections[section]
    IN IF ~test_section.enabled
       THEN [m EXCEPT !.exit = "disabled"]
       ELSE LET r == RunTests(test_section.tests, 1,
                         NoResults, env)
            IN [m EXCEPT !.test_sections = sections,
                         !.all_results = @ \o r.results,
                         !.invoked = @ \o r.invoked,
                         !.rates = Append(@, DoubleDiv(r.passed * 100,
                                              Len(test_section.tests))),
                         !.exit = "completed"]

\* DoRunSection that enforces the timeout: a result whose measured time is
\* above the section's timeout_seconds is stored as failed.
DoRunSectionEnforcesTimeout(section, m, env) ==
    IF section \notin DOMAIN m.test_sections
    THEN [m EXCEPT !.exit = "not_found"]
    ELSE LET test_section == m.test_sections[section] IN
         IF ~test_section.enabled
         THEN [m EXCEPT !.exit = "disabled"]
         ELSE LET r == RunTests(test_section.tests, 1, NoResults, env)
                  timed == [i \in 1..Len(r.results) |->
                              [r.results[i] EXCEPT !.passed =
                                  @ /\ ~(env.ms > test_section.timeout_seconds)]]
              IN [m EXCEPT !.all_results = @ \o timed,
                           !.invoked = @ \o r.invoked,
                           !.rates = Append(@, DoubleDiv(
                               Cardinality({i \in 1..Len(timed) : timed[i].passed}) * 100,
                                                Len(test_section.tests))),
                           !.exit = "completed"]

\* runSection(section) on the machine m = [test_sections, all_results,
\* invoked, rates, listed, exit].  exit = "threw": an exception of a callable
\* left the method.
DoRunSection(section, m, env) ==
    IF section \notin DOMAIN m.test_sections
    THEN [m EXCEPT !.exit = "not_found"]
    ELSE LET test_section == m.test_sections[section] IN
         IF ~test_section.enabled
         THEN [m EXCEPT !.exit = "disabled"]
         ELSE LET r == RunTests(test_section.tests, 1,
                           NoResults, env)
              IN IF r.threw
                 THEN [m EXCEPT !.all_results = @ \o r.results,
                                !.invoked = @ \o r.invoked,
                                !.exit = "threw"]
                 ELSE [m EXCEPT !.all_results = @ \o r.results,
                                !.invoked = @ \o r.invoked,
                                !.rates = Append(@, DoubleDiv(r.passed * 100,
                                                     Len(test_section.tests))),
                                !.exit = "completed"]

\* FailedCount with a loop that starts at the second result.
FailedCountSkipFirst(results) ==
    Cardinality({i \in 2..Len(results) : ~results[i].passed})

\* Counters over a result list.
PassedCount(results) == Cardinality({i \in 1..Len(results) : results[i].passed})
FailedCount(results) == Cardinality({i \in 1..Len(results) : ~results[i].passed})
RECURSIVE TotalTime(_)
TotalTime(results) ==
    IF results = <<>> THEN 0
    ELSE results[1].execution_time_ms + TotalTime(Tail(results))

\* printOverallSummary() on the machine m: prints the overall success rate.
DoPrintOverallSummary(m) ==
    [m EXCEPT !.rates = Append(@, DoubleDiv(PassedCount(m.all_results) * 100,
                                            Len(m.all_results))),
              !.exit = "completed"]

\* SweepRun visiting the keys in descending order.
RECURSIVE SweepRunDescending(_, _, _)
SweepRunDescending(section, m, env) ==
    IF section > ALL_SECTIONS THEN m
    ELSE LET key == ALL_SECTIONS - (section - BASIC_GPIO_OPERATIONS) IN
         SweepRunDescending(section + 1,
                  IF key \in DOMAIN m.test_sections /\ key # ALL_SECTIONS
                  THEN DoRunSection(key, m, env) ELSE m,
                  env)

\* The range-for over the map: keys in ascending order, from key `section` on.
RECURSIVE SweepRun(_, _, _)
SweepRun(section, m, env) ==
    IF section > ALL_SECTIONS \/ m.exit = "threw" THEN m
    ELSE SweepRun(section + 1,
                  IF section \in DOMAIN m.test_sections /\ section # ALL_SECTIONS
                  THEN DoRunSection(section, m, env) ELSE m,
                  env)

DoRunAllSections(m, env) ==
    LET swept == SweepRun(BASIC_GPIO_OPERATIONS, m, env)
    IN IF swept.exit = "threw" THEN swept ELSE DoPrintOverallSummary(swept)

\* RunList walking the list from its last element to its first.
RECURSIVE RunListReversed(_, _, _, _)
RunListReversed(sections, i, m, env) ==
    IF i > Len(sections) THEN m
    ELSE RunListReversed(sections, i + 1,
             DoRunSection(sections[Len(sections) + 1 - i], m, env), env)

\* The loop of runSelectedSections over the list, from index i on.
RECURSIVE RunList(_, _, _, _)
RunList(sections, i, m, env) ==
    IF i > Len(sections) \/ m.exit = "threw" THEN m
    ELSE RunList(sections, i + 1, DoRunSection(sections[i], m, env), env)

DoRunSelectedSections(sections, m, env) ==
    LET ran == RunList(sections, 1, m, env)
    IN IF ran.exit = "threw" THEN ran ELSE [ran EXCEPT !.exit = "completed"]

DoSetSectionTimeout(section, timeout_seconds, sections) ==
    IF section \in DOMAIN sections
    THEN [sections EXCEPT ![section].timeout_seconds = timeout_seconds]
    ELSE sections

DoEnableSection(section, enable, sections) ==
    IF section \in DOMAIN sections
    THEN [sections EXCEPT ![section].enabled = enable]
    ELSE sections

\* DoEnableAllSections without the test for the synthetic entry.
DoEnableAllSectionsNoSkip(sections) ==
    [section \in DOMAIN sections |-> [sections[section] EXCEPT !.enabled = TRUE]]

DoEnableAllSections(sections) ==
    [section \in DOMAIN sections |->
        IF section # ALL_SECTIONS
        THEN [sections[section] EXCEPT !.enabled = TRUE]
        ELSE sections[section]]

DoDisableAllSections(sections) ==
    [section \in DOMAIN sections |->
        IF section # ALL_SECTIONS
        THEN [sections[section] EXCEPT !.enabled = FALSE]
        ELSE sections[section]]

\* The range-for of the listing methods over the map, from key `section` on:
\* the keys other than ALL_SECTIONS, only the enabled ones if onlyEnabled.
RECURSIVE SweepList(_, _, _)
SweepList(section, sections, onlyEnabled) ==
    IF section > ALL_SECTIONS THEN <<>>
    ELSE (IF /\ section \in DOMAIN sections
             /\ section # ALL_SECTIONS
             /\ (onlyEnabled => sections[section].enabled)
          THEN <<section>> ELSE <<>>)
         \o SweepList(section + 1, sections, onlyEnabled)

\* DoListSections whose test of the flag is written as an assignment
\* (enabled = true), which sets the flag of every section it prints.
DoListSectionsAssigns(m) ==
    [m EXCEPT !.test_sections =
                 [section \in DOMAIN m.test_sections |->
                    IF section # ALL_SECTIONS
                    THEN [m.test_sections[section] EXCEPT !.enabled = TRUE]
                    ELSE m.test_sections[section]],
              !.listed = SweepList(BASIC_GPIO_OPERATIONS, m.test_sections, FALSE)]

\* listSections() on the machine m: prints one entry per section.
DoListSections(m) ==
    [m EXCEPT !.listed = SweepList(BASIC_GPIO_OPERATIONS, m.test_sections, FALSE)]

\* listEnabledSections() on the machine m: prints the enabled sections.
DoListEnabledSections(m) ==
    [m EXCEPT !.listed = SweepList(BASIC_GPIO_OPERATIONS, m.test_sections, TRUE)]

\* DoClearResults that removes the last result only.
DoClearResultsPopBack(results) ==
    IF results = <<>> THEN <<>> ELSE SubSeq(results, 1, Len(results) - 1)

DoClearResults(results) == <<>>

\* ------------------------------------------------------------- accessors

getTotalTestCount == Len(all_results)
getPassedTestCount == PassedCount(all_results)
getFailedTestCount == FailedCount(all_results)
getTotalExecutionTime == TotalTime(all_results)

\* getAverageExecutionTime without the test of all_results.empty().
getAverageExecutionTimeUnguarded ==
    DoubleDiv(getTotalExecutionTime, Len(all_results))

getAverageExecutionTime ==
    IF all_results = <<>> THEN Finite(0)
    ELSE DoubleDiv(getTotalExecutionTime, Len(all_results))

\* hasFailures with a loop that returns after looking at the first result.
hasFailuresFirstOnly ==
    all_results # <<>> /\ ~all_results[1].passed

hasFailures == \E i \in 1..Len(all_results) : ~all_results[i].passed
isSectionEnabled(section) ==
    IF section \in DOMAIN test_sections THEN test_sections[section].enabled ELSE FALSE
getSectionTestCount(section) ==
    IF section \in DOMAIN test_sections THEN Len(test_sections[section].tests) ELSE 0
getEnabledSections ==
    LET RECURSIVE Collect(_)
        Collect(section) ==
            IF section > ALL_SECTIONS THEN <<>>
            ELSE (IF section \in DOMAIN test_sections /\ section # ALL_SECTIONS
                     /\ test_sections[section].enabled
                  THEN <<section>> ELSE <<>>) \o Collect(section + 1)
    IN Collect(BASIC_GPIO_OPERATIONS)

\* ------------------------------------------------------------------ actions

\* The machine a call starts on.
Machine == [test_sections |-> test_sections, all_results |-> all_results,
            invoked |-> <<>>, rates |-> <<>>, listed |-> <<>>,
            exit |-> "completed"]

\* A call that ran the runner and ended on machine m.
Ran(op, arg, m) ==
    /\ Len(m.all_results) <= MaxResults
    /\ test_sections' = m.test_sections
    /\ all_results' = m.all_results
    /\ call' = [op |-> op, arg |-> arg, exit |-> m.exit]
    /\ invoked' = m.invoked
    /\ rates' = m.rates
    /\ listed' = m.listed
    /\ results_before' = Len(all_results)
    /\ UNCHANGED <<exit_status, failing, throwing, ms, espvars, drivervars,
                 config, hostvars>>

\* A function of an ESP32 harness that returned, other than run_test_section.
EspCall(op, arg) ==
    [op |-> op, arg |-> arg, invoked |-> <<>>, total_before |-> 0,
     aborted |-> FALSE]

\* A function of the driver glue that returned: its result and the driver
\* calls it issued, in order.
DriverCall(op, arg, ret, driver_calls) ==
    [op |-> op, arg |-> arg, ret |-> ret, driver_calls |-> driver_calls]

\* The statics of WifiComprehensiveTest.cpp at program start, with the event
\* group app_main creates; initialized is wifi_initialized, and in the
\* Bluetooth program bluetooth_initialized. reconnects counts the
\* esp_wifi_connect calls of the handler's STA_DISCONNECTED branch since the
\* last IP_EVENT_STA_GOT_IP, ever_set keeps the bits that were ever set.
WifiStart ==
    [s_retry_num |-> 0, s_wifi_event_group |-> {}, initialized |-> FALSE,
     reconnects |-> 0, ever_set |-> {},
     call |-> DriverCall("app_main", <<>>, "ESP_OK", <<>>)]

\* ------------------------------------------------------------ PWM harness

\* PwmComprehensiveTest.h: enum TestSection and enum TestGroup.
SECTION_BASIC_PWM == 0
SECTION_FREQUENCY_TESTS == 1
SECTION_MAX == 7
GROUP_INITIALIZATION == 0
GROUP_FUNCTIONALITY == 1
GROUP_VALIDATION == 2
GROUP_MAX == 4

\* The number of elements of the array test_results.
TestResultsSize == 100

\* The statics of PwmComprehensiveTest.cpp at program start. failing is the
\* environment: the driver functions that return an error. call, headers and
\* executed describe the public function called last: the section headers it
\* printed and the tests it executed, in order.
PwmStart(broken) ==
    [test_section_enabled |-> [i \in 0..(SECTION_MAX - 1) |-> TRUE],
     test_group_enabled |-> [g \in 0..(GROUP_MAX - 1) |-> TRUE],
     test_results |-> <<>>,
     test_result_count |-> 0,
     pwm_initialized |-> FALSE,
     failing |-> broken,
     call |-> [op |-> "setup", arg |-> <<>>],
     headers |-> <<>>,
     executed |-> <<>>]

\* One test of a section: its group (GROUP_MAX: the code asks for no group),
\* the test_name it records and the function that gives result.passed
\* ("true" for the placeholder `result.passed = true`).
PwmTest(group, test_name, fn) ==
    [group |-> group, test_name |-> test_name, fn |-> fn]

\* The tests of the seven run_*_tests functions, in the order of the code.
PwmTests(section) ==
    CASE section = 0 ->
           <<PwmTest(GROUP_INITIALIZATION, "PWM Timer Configuration",
                     "test_pwm_initialization"),
             PwmTest(GROUP_FUNCTIONALITY, "PWM Frequency Setting",
                     "test_pwm_frequency_setting"),
             PwmTest(GROUP_FUNCTIONALITY, "PWM Duty Cycle Setting",
                     "test_pwm_duty_cycle_setting"),
             PwmTest(GROUP_VALIDATION, "PWM Output Validation",
                     "test_pwm_output_validation"),
             PwmTest(3, "PWM Cleanup", "test_pwm_cleanup")>>
      [] section = 1 -> [i \in 1..5 |-> PwmTest(GROUP_MAX, "Frequency Test", "true")]
      [] section = 2 -> [i \in 1..5 |-> PwmTest(GROUP_MAX, "Duty Cycle Test", "true")]
      [] section = 3 -> [i \in 1..5 |-> PwmTest(GROUP_MAX, "Pin Test", "true")]
      [] section = 4 -> <<PwmTest(GROUP_MAX, "High Frequency Switching", "true")>>
      [] section = 5 -> <<PwmTest(GROUP_MAX, "Invalid Frequency Test", "true")>>
      [] OTHER -> <<PwmTest(GROUP_MAX, "Continuous Operation", "true")>>

\* The driver calls of a test function past its pwm_initialized test: those
\* whose result it checks, then those whose result it drops.
PwmDriverCalls(fn) ==
    CASE fn = "test_pwm_initialization" ->
           [checked |-> <<"ledc_timer_config", "ledc_channel_config">>,
            unchecked |-> <<>>]
      [] fn = "test_pwm_frequency_setting" ->
           [checked |-> [i \in 1..4 |-> "ledc_set_freq"],
            unchecked |-> <<"ledc_set_freq">>]
      [] fn = "test_pwm_duty_cycle_setting" ->
           [checked |-> [i \in 1..5 |-> "ledc_set_duty"],
            unchecked |-> <<"ledc_set_duty">>]
      [] fn = "test_pwm_output_validation" ->
           [checked |-> <<"ledc_set_duty", "ledc_update_duty", "ledc_stop">>,
            unchecked |-> <<>>]
      [] fn = "test_pwm_cleanup" ->
           [checked |-> <<"ledc_stop", "ledc_channel_config">>,
            unchecked |-> <<>>]
      [] OTHER -> [checked |-> <<>>, unchecked |-> <<>>]

\* The test functions running their driver calls whatever pwm_initialized is.
DoPwmTestUnguarded(fn, initialized, broken) ==
    LET c   == PwmDriverCalls(fn)
        bad == {k \in 1..Len(c.checked) : c.checked[k] \in broken}
        k   == IF bad = {} THEN 0 ELSE CHOOSE b \in bad : \A j \in bad : b <= j
    IN  IF k > 0
        THEN [passed |-> FALSE, driver_calls |-> SubSeq(c.checked, 1, k),
              pwm_initialized |-> initialized]
        ELSE [passed |-> TRUE, driver_calls |-> c.checked \o c.unchecked,
              pwm_initialized |->
                  CASE fn = "test_pwm_initialization" -> TRUE
                    [] fn = "test_pwm_cleanup" -> FALSE
                    [] OTHER -> initialized]

\* test_pwm_initialization .. test_pwm_cleanup (and the placeholder "true")
\* called with pwm_initialized == initialized: what it returns, the driver
\* calls it issues and pwm_initialized when it returns. The first checked
\* driver call that fails makes it return false at once.
DoPwmTest(fn, initialized, broken) ==
    LET c   == PwmDriverCalls(fn)
        bad == {k \in 1..Len(c.checked) : c.checked[k] \in broken}
        k   == IF bad = {} THEN 0 ELSE CHOOSE b \in bad : \A j \in bad : b <= j
    IN  IF \/ fn = "test_pwm_initialization" /\ initialized
           \/ fn = "test_pwm_cleanup" /\ ~initialized
        THEN [passed |-> TRUE, driver_calls |-> <<>>,
              pwm_initialized |-> initialized]
        ELSE IF /\ fn \in {"test_pwm_frequency_setting",
                           "test_pwm_duty_cycle_setting",
                           "test_pwm_output_validation"}
                /\ ~initialized
        THEN [passed |-> FALSE, driver_calls |-> <<>>,
              pwm_initialized |-> initialized]
        ELSE IF k > 0
        THEN [passed |-> FALSE, driver_calls |-> SubSeq(c.checked, 1, k),
              pwm_initialized |-> initialized]
        ELSE [passed |-> TRUE, driver_calls |-> c.checked \o c.unchecked,
              pwm_initialized |->
                  CASE fn = "test_pwm_initialization" -> TRUE
                    [] fn = "test_pwm_cleanup" -> FALSE
                    [] OTHER -> initialized]

\* The statics p after test t of a section ran and its result was stored.
PwmRecorded(section, t, p) ==
    LET r == DoPwmTest(t.fn, p.pwm_initialized, p.failing)
    IN  [p EXCEPT
           !.test_results = Append(@, [passed |-> r.passed,
                                       test_name |-> t.test_name]),
           !.test_result_count = @ + 1,
           !.pwm_initialized = r.pwm_initialized,
           !.executed = Append(@, [section |-> section, group |-> t.group,
                                   fn |-> t.fn, test_name |-> t.test_name,
                                   passed |-> r.passed,
                                   driver_calls |-> r.driver_calls,
                                   before |-> p.pwm_initialized,
                                   after |-> r.pwm_initialized])]

\* The body of a section function running every test, whatever its group.
RECURSIVE RunPwmTestsAllGroups(_, _, _)
RunPwmTestsAllGroups(section, k, p) ==
    IF k > Len(PwmTests(section)) THEN p
    ELSE RunPwmTestsAllGroups(section, k + 1,
                              PwmRecorded(section, PwmTests(section)[k], p))

\* The body of a section function from its test number k on: a test inside
\* `if (test_group_enabled[group])` is skipped while the group is disabled.
RECURSIVE RunPwmTests(_, _, _)
RunPwmTests(section, k, p) ==
    IF k > Len(PwmTests(section)) THEN p
    ELSE LET t == PwmTests(section)[k]
         IN  IF t.group < GROUP_MAX /\ ~p.test_group_enabled[t.group]
             THEN RunPwmTests(section, k + 1, p)
             ELSE RunPwmTests(section, k + 1, PwmRecorded(section, t, p))

\* run_basic_pwm_tests() .. run_stress_tests(), by the section they run.
DoRunSectionTests(section, p) ==
    IF ~p.test_section_enabled[section] THEN p
    ELSE RunPwmTests(section, 1, [p EXCEPT !.headers = Append(@, section)])

\* The seven calls of run_pwm_comprehensive_tests from section number
\* `section` on.
RECURSIVE RunPwmSections(_, _)
RunPwmSections(section, p) ==
    IF section >= SECTION_MAX THEN p
    ELSE RunPwmSections(section + 1, DoRunSectionTests(section, p))

\* run_pwm_comprehensive_tests().
DoRunPwmComprehensiveTests(p) ==
    RunPwmSections(0, [p EXCEPT !.test_results = <<>>,
                                !.test_result_count = 0])

\* enable_test_section(section, enable) of the PWM harness.
DoPwmEnableTestSection(section, enable, p) ==
    IF section >= 0 /\ section < SECTION_MAX
    THEN [p EXCEPT !.test_section_enabled[section] = enable]
    ELSE p

\* enable_test_group(group, enable).
DoEnableTestGroup(group, enable, p) ==
    IF group >= 0 /\ group < GROUP_MAX
    THEN [p EXCEPT !.test_group_enabled[group] = enable]
    ELSE p

\* The second loop of run_specific_test_sections writing whatever index the
\* list holds.
RECURSIVE EnableListedUnchecked(_, _, _)
EnableListedUnchecked(sections, i, enabled) ==
    IF i > Len(sections) THEN enabled
    ELSE EnableListedUnchecked(sections, i + 1,
                               (sections[i] :> TRUE) @@ enabled)

\* The second loop of run_specific_test_sections from index i on; a write to
\* test_section_enabled[x] lands in the array exactly if x is in its domain.
RECURSIVE EnableListed(_, _, _)
EnableListed(sections, i, enabled) ==
    IF i > Len(sections) THEN enabled
    ELSE EnableListed(sections, i + 1,
                      IF sections[i] >= 0 /\ sections[i] < SECTION_MAX
                      THEN (sections[i] :> TRUE) @@ enabled
                      ELSE enabled)

\* run_specific_test_sections(sections, count) with count == Len(sections).
DoRunSpecificTestSections(sections, p) ==
    DoRunPwmComprehensiveTests(
        [p EXCEPT !.test_section_enabled =
            EnableListed(sections, 1, [i \in 0..(SECTION_MAX - 1) |-> FALSE])])

\* The statics as public function op(arg) finds them: nothing printed or
\* executed by this call yet.
PwmCalled(op, arg, p) ==
    [p EXCEPT !.call = [op |-> op, arg |-> arg],
              !.headers = <<>>, !.executed = <<>>]

\* ------------------------------------------------------------ SPI harness

\* main/SpiComprehensiveTest.cpp: enum TestSection.
SECTION_INITIALIZATION == 0
TOTAL_SECTIONS == 7

\* The globals of main/SpiComprehensiveTest.cpp at program start:
\* sectionResults is <<>> for nullptr. begun tells whether the last call on
\* the bus was spi.begin(). call, spi_calls and starts describe the function
\* called last: its spi.begin() / spi.end() calls, and for each test
\* function that runTest called the value of spiInitialized it found.
\* throwing is the environment: the test functions that throw. live counts
\* the TestResult arrays that new[] returned and delete[] has not released.
SpiStart ==
    [spiInitialized |-> FALSE,
     sectionResults |-> <<>>,
     begun |-> FALSE,
     throwing |-> {},
     live |-> 0,
     call |-> [op |-> "none", arg |-> <<>>, invalid |-> FALSE],
     spi_calls |-> <<>>,
     starts |-> <<>>]

\* spi.begin() and spi.end().
SpiBusCall(what, g) ==
    [g EXCEPT !.spi_calls = Append(@, what), !.begun = (what = "begin")]

\* The tests of a section, in the order of the switch of runSection: the
\* test function and the name handed to runTest.
SpiTests(section) ==
    CASE section = 0 -> << <<"testSpiBegin", "SPI Begin">>,
                           <<"testSpiEnd", "SPI End">> >>
      [] section = 1 -> << <<"testSpiTransfer", "Single Byte Transfer">>,
                           <<"testSpiTransfer16", "16-bit Transfer">>,
                           <<"testSpiTransfer32", "32-bit Transfer">>,
                           <<"testSpiTransferBuffer", "Buffer Transfer">> >>
      [] section = 2 -> << <<"testSpiMode", "SPI Mode Testing">>,
                           <<"testSpiBitOrder", "Bit Order Testing">>,
                           <<"testSpiClockSpeed", "Clock Speed Testing">> >>
      [] section = 3 -> << <<"testSpiClockSpeed", "Clock Speed Variations">> >>
      [] section = 4 -> << <<"testSpiErrorHandling", "Error Handling">> >>
      [] section = 5 -> << <<"testSpiPerformance", "Performance Benchmark">> >>
      [] OTHER -> << <<"testSpiStress", "Stress Testing">> >>

\* The test functions with a testSpiBegin that never ends the bus first.
DoSpiTestBeginsAgain(fn, g) ==
    CASE fn = "testSpiBegin" ->
           [passed |-> TRUE,
            g |-> [SpiBusCall("begin", g) EXCEPT !.spiInitialized = TRUE]]
      [] fn = "testSpiEnd" ->
           IF ~g.spiInitialized THEN [passed |-> FALSE, g |-> g]
           ELSE [passed |-> TRUE,
                 g |-> [SpiBusCall("end", g) EXCEPT !.spiInitialized = FALSE]]
      [] OTHER -> [passed |-> g.spiInitialized, g |-> g]

\* A test function called on the globals g: what it returns and the globals
\* it leaves. The transfer, mode, speed, error, performance and stress tests
\* return false when spiInitialized is false and true otherwise.
DoSpiTest(fn, g) ==
    CASE fn = "testSpiBegin" ->
           LET ended == IF g.spiInitialized
                        THEN [SpiBusCall("end", g) EXCEPT !.spiInitialized = FALSE]
                        ELSE g
           IN  [passed |-> TRUE,
                g |-> [SpiBusCall("begin", ended) EXCEPT !.spiInitialized = TRUE]]
      [] fn = "testSpiEnd" ->
           IF ~g.spiInitialized THEN [passed |-> FALSE, g |-> g]
           ELSE [passed |-> TRUE,
                 g |-> [SpiBusCall("end", g) EXCEPT !.spiInitialized = FALSE]]
      [] OTHER -> [passed |-> g.spiInitialized, g |-> g]

\* The tests of a section run without the try block of runTest: the first
\* test function that throws ends the loop.
RECURSIVE SpiRunTestsNoCatch(_, _, _)
SpiRunTestsNoCatch(section, k, g) ==
    IF k > Len(SpiTests(section)) THEN g
    ELSE IF SpiTests(section)[k][1] \in g.throwing THEN g
    ELSE LET t == SpiTests(section)[k]
             r == DoSpiTest(t[1], g)
             result == [passed |-> r.passed,
                        message |-> IF r.passed THEN "PASSED" ELSE "FAILED"]
         IN  SpiRunTestsNoCatch(section, k + 1,
                 [r.g EXCEPT
                    !.sectionResults[section].results = Append(@, result),
                    !.starts = Append(@, [section |-> section, test |-> t[2],
                                          spiInitialized |-> g.spiInitialized])])

\* sectionResults[section].results[k - 1] = runTest(testFunc, testName) for
\* the tests of the section from number k on. A test function that throws
\* leaves the globals as they are and is caught by catch (...), which stores
\* passed = false and the message "ERROR".
RECURSIVE SpiRunTests(_, _, _)
SpiRunTests(section, k, g) ==
    IF k > Len(SpiTests(section)) THEN g
    ELSE LET t == SpiTests(section)[k]
             threw == t[1] \in g.throwing
             r == IF threw THEN [passed |-> FALSE, g |-> g]
                  ELSE DoSpiTest(t[1], g)
             result == [passed |-> r.passed,
                        message |-> IF threw THEN "ERROR"
                                    ELSE IF r.passed THEN "PASSED" ELSE "FAILED"]
         IN  SpiRunTests(section, k + 1,
                 [r.g EXCEPT
                    !.sectionResults[section].results = Append(@, result),
                    !.starts = Append(@, [section |-> section, test |-> t[2],
                                          spiInitialized |-> g.spiInitialized])])

\* runSection(section): `results = new TestResult[n]` overwrites the pointer
\* of the previous run, which no statement of runSection deletes.
DoSpiRunSection(section, g) ==
    IF section >= TOTAL_SECTIONS THEN g
    ELSE LET fresh == [g EXCEPT !.sectionResults[section] =
                           [totalTests |-> Len(SpiTests(section)),
                            passedTests |-> 0, failedTests |-> 0,
                            results |-> <<>>],
                                !.live = @ + 1]
             ready == IF section = SECTION_INITIALIZATION THEN fresh
                      ELSE DoSpiTest("testSpiBegin", fresh).g
             ran   == SpiRunTests(section, 1, ready)
             res   == ran.sectionResults[section].results
             n     == Cardinality({i \in 1..Len(res) : res[i].passed})
         IN  [ran EXCEPT !.sectionResults[section].passedTests = n,
                         !.sectionResults[section].failedTests = Len(res) - n]

\* The loop of runAllSections() from section i on.
RECURSIVE SpiRunFrom(_, _)
SpiRunFrom(i, g) ==
    IF i >= TOTAL_SECTIONS THEN g
    ELSE SpiRunFrom(i + 1, DoSpiRunSection(i, g))

\* runSpecificSection(sectionIndex).
DoRunSpecificSection(sectionIndex, g) ==
    IF sectionIndex < 0 \/ sectionIndex >= TOTAL_SECTIONS THEN g
    ELSE DoSpiRunSection(sectionIndex, g)

\* setup(): the array of section results, then initializeSpi().
DoSpiSetup(g) ==
    [SpiBusCall("begin", g) EXCEPT
       !.sectionResults = [i \in 0..(TOTAL_SECTIONS - 1) |->
                              [totalTests |-> 0, passedTests |-> 0,
                               failedTests |-> 0, results |-> <<>>]],
       !.spiInitialized = TRUE]

\* The globals as function op(arg) finds them.
SpiCalled(op, arg, g) ==
    [g EXCEPT !.call = [op |-> op, arg |-> arg, invalid |-> FALSE],
              !.spi_calls = <<>>, !.starts = <<>>]

\* cleanupSpi(): delete[] for every results pointer that is not nullptr,
\* then for sectionResults itself.
DoCleanupSpi(g) ==
    LET ended == IF g.spiInitialized
                 THEN [SpiBusCall("end", g) EXCEPT !.spiInitialized = FALSE]
                 ELSE g
        held  == {i \in DOMAIN g.sectionResults :
                      g.sectionResults[i].results # <<>>}
    IN  [ended EXCEPT !.live = @ - Cardinality(held),
                      !.sectionResults = <<>>]

\* String::equalsIgnoreCase on two strings given as their characters.
equalsIgnoreCase(a, b) ==
    LET upper == <<"A", "L", "H", "E", "P", "Q", "U", "I", "T", "X">>
        lower == <<"a", "l", "h", "e", "p", "q", "u", "i", "t", "x">>
        tolower(c) == IF \E j \in 1..Len(upper) : upper[j] = c
                      THEN lower[CHOOSE j \in 1..Len(upper) : upper[j] = c]
                      ELSE c
    IN  /\ Len(a) = Len(b)
        /\ \A j \in 1..Len(a) : tolower(a[j]) = tolower(b[j])

\* The digits at the front of chars from position k on, read as a decimal
\* number on top of acc; the first character that is no digit ends it.
RECURSIVE ReadDigits(_, _, _)
ReadDigits(chars, k, acc) ==
    LET digits == <<"0", "1", "2", "3", "4", "5", "6", "7", "8", "9">>
    IN  IF k > Len(chars) \/ ~\E d \in 1..10 : digits[d] = chars[k] THEN acc
        ELSE ReadDigits(chars, k + 1,
                        acc * 10 + (CHOOSE d \in 1..10 : digits[d] = chars[k]) - 1)

\* String::toInt(): an optional sign and the digits that follow it; 0 when
\* the string does not start with a number.
toInt(chars) ==
    IF chars # <<>> /\ chars[1] = "-" THEN 0 - ReadDigits(chars, 2, 0)
    ELSE ReadDigits(chars, 1, 0)

\* loop() with the trimmed line `input` waiting on Serial.
DoLoop(input, g) ==
    IF equalsIgnoreCase(input, <<"a", "l", "l">>) THEN SpiRunFrom(0, g)
    ELSE IF equalsIgnoreCase(input, <<"h", "e", "l", "p">>) THEN g
    ELSE IF equalsIgnoreCase(input, <<"q", "u", "i", "t">>) THEN DoCleanupSpi(g)
    ELSE LET sectionIndex == toInt(input)
         IN  IF sectionIndex >= 0 /\ sectionIndex < TOTAL_SECTIONS
             THEN DoRunSpecificSection(sectionIndex, g)
             ELSE [g EXCEPT !.call.invalid = TRUE]

\* ------------------------------------ the ASCII-art and the Logger programs

\* TestConfig as its default constructor leaves it.
DefaultConfig ==
    [verbose_output |-> FALSE, stop_on_failure |-> FALSE,
     generate_report |-> TRUE, report_filename |-> "gpio_test_report.txt",
     default_timeout_seconds |-> 30]

\* The names the sections of AsciiTestRunner and of LoggerTestRunner are
\* constructed with, in the order the runner's constructor registers them.
HostSectionNames(program) ==
    IF program = "ascii"
    THEN <<"Basic Functionality", "Pixel Operations", "Drawing Operations",
           "Text Rendering", "Canvas Management", "Performance", "Edge Cases">>
    ELSE <<"Basic Functionality", "Logging Operations", "Buffer Management",
           "Performance", "Edge Cases">>

\* The assertions of the Performance section that compare a measured
\* duration with a limit: the only ones whose outcome the code does not fix.
TimedAssertions(program) == IF program = "ascii" THEN 2 ELSE 1

\* The runner after its constructor. call describes the member function
\* called last: its result and, in ran, the run() calls it made with whether
\* every assertion of the run held and what run() returned.
RunnerStart(program) ==
    [program |-> program,
     testSections |->
         [i \in 1..Len(HostSectionNames(program)) |->
             [name |-> HostSectionNames(program)[i], passed |-> TRUE,
              errors |-> <<>>]],
     sectionResults |-> <<>>,
     exit |-> Running,
     call |-> [op |-> "constructor", arg |-> <<>>, ret |-> FALSE, ran |-> <<>>]]

\* The runner as member function op(arg) finds it.
HostCalled(op, arg, r) ==
    [r EXCEPT !.call = [op |-> op, arg |-> arg, ret |-> FALSE, ran |-> <<>>]]

\* run() sets passed to true before its assertions.
DoHostRunFreshFlag(i, slow, r) ==
    LET section == r.testSections[i]
        late    == IF section.name = "Performance" THEN slow ELSE 0
        passed  == late = 0
    IN  [r EXCEPT
           !.testSections[i].errors =
               @ \o [k \in 1..late |-> "Assertion failed"],
           !.testSections[i].passed = passed,
           !.call.ran = Append(@, [index |-> i, held |-> late = 0,
                                   returned |-> passed])]

\* testSections[i]->run() in a run in which `slow` timed assertions fail:
\* every failed assertion calls addError, which appends to errors and sets
\* passed to false; run() returns passed.
DoHostRun(i, slow, r) ==
    LET section == r.testSections[i]
        late    == IF section.name = "Performance" THEN slow ELSE 0
        passed  == section.passed /\ late = 0
    IN  [r EXCEPT
           !.testSections[i].errors =
               @ \o [k \in 1..late |-> "Assertion failed"],
           !.testSections[i].passed = passed,
           !.call.ran = Append(@, [index |-> i, held |-> late = 0,
                                   returned |-> passed])]

\* bool result = section->run(); sectionResults[section->getName()] = result;
HostRunAndRecord(i, slow, r) ==
    LET done   == DoHostRun(i, slow, r)
        name   == done.testSections[i].name
        result == done.testSections[i].passed
        old    == r.sectionResults
    IN  [done EXCEPT !.sectionResults =
            [n \in DOMAIN old \cup {name} |->
                IF n = name THEN result ELSE old[n]]]

\* runSection(int) that takes sectionIndex == size for out of range.
DoHostRunSectionIndexOffByOne(sectionIndex, slow, r) ==
    IF sectionIndex < 1 \/ sectionIndex >= Len(r.testSections)
    THEN [r EXCEPT !.call.ret = FALSE]
    ELSE LET done == HostRunAndRecord(sectionIndex, slow, r)
         IN  [done EXCEPT !.call.ret = done.testSections[sectionIndex].passed]

\* runSection(int sectionIndex).
DoHostRunSectionIndex(sectionIndex, slow, r) ==
    IF sectionIndex < 1 \/ sectionIndex > Len(r.testSections)
    THEN [r EXCEPT !.call.ret = FALSE]
    ELSE LET done == HostRunAndRecord(sectionIndex, slow, r)
         IN  [done EXCEPT !.call.ret = done.testSections[sectionIndex].passed]

\* runSection(const std::string& sectionName): the first section of that name.
DoHostRunSectionName(sectionName, slow, r) ==
    LET found == {i \in 1..Len(r.testSections) :
                      r.testSections[i].name = sectionName}
    IN  IF found = {} THEN [r EXCEPT !.call.ret = FALSE]
        ELSE LET i    == CHOOSE i \in found : \A j \in found : i <= j
                 done == HostRunAndRecord(i, slow, r)
             IN  [done EXCEPT !.call.ret = done.testSections[i].passed]

\* The loop of runAllSections leaves at the first section that fails.
RECURSIVE HostRunAllFromStopsAtFailure(_, _, _)
HostRunAllFromStopsAtFailure(i, slow, r) ==
    IF i > Len(r.testSections) THEN r
    ELSE LET done == HostRunAndRecord(i, slow, r)
         IN  IF done.testSections[i].passed
             THEN HostRunAllFromStopsAtFailure(i + 1, slow, done)
             ELSE done

\* The loop of runAllSections from section i on.
RECURSIVE HostRunAllFrom(_, _, _)
HostRunAllFrom(i, slow, r) ==
    IF i > Len(r.testSections) THEN r
    ELSE HostRunAllFrom(i + 1, slow, HostRunAndRecord(i, slow, r))

\* runAllSections(): allPassed is cleared by every result that is false.
DoHostRunAllSections(slow, r) ==
    LET done == HostRunAllFrom(1, slow, r)
    IN  [done EXCEPT !.call.ret =
            \A k \in 1..Len(done.call.ran) : done.call.ran[k].returned]

\* The status with which a process ends that std::terminate aborted.
Aborted == 128 + 6

\* main(argc, argv) of either program; argv without the program name. The
\* number after --index is given by its characters: std::stoi reads the
\* digits at its front and throws when there are none, which nothing catches.
DoHostMain(argv, slow, r) ==
    LET arg    == IF argv = <<>> THEN "" ELSE argv[1]
        status(done) == [done EXCEPT !.exit = IF done.call.ret THEN 0 ELSE 1]
    IN  CASE argv = <<>> \/ arg \in {"--all", "-a"} ->
               status(DoHostRunAllSections(slow, r))
          [] arg \in {"--list", "-l", "--help", "-h"} -> [r EXCEPT !.exit = 0]
          [] arg \in {"--section", "-s"} /\ Len(argv) > 1 ->
               status(DoHostRunSectionName(argv[2], slow, r))
          [] arg \in {"--index", "-i"} /\ Len(argv) > 1 ->
               LET text   == argv[2]
                   digits == IF text # <<>> /\ text[1] = "-" THEN Tail(text)
                             ELSE text
               IN  IF digits = <<>> \/ digits[1] \notin
                         {"0", "1", "2", "3", "4", "5", "6", "7", "8", "9"}
                   THEN [r EXCEPT !.exit = Aborted]
                   ELSE status(DoHostRunSectionIndex(toInt(text), slow, r))
          [] OTHER -> [r EXCEPT !.exit = 1]

\* ---------------------------------------------------------- class Logger

TRACE == 0
DEBUG == 1
INFO == 2
WARN == 3
ERROR == 4
FATAL == 5

\* The switch of Logger::log.
LevelStr(level) ==
    CASE level = TRACE -> "TRACE"
      [] level = DEBUG -> "DEBUG"
      [] level = INFO -> "INFO"
      [] level = WARN -> "WARN"
      [] level = ERROR -> "ERROR"
      [] level = FATAL -> "FATAL"
      [] OTHER -> ""

\* Logger(): a log entry is kept as the pieces its string is put together
\* from. call is the member function called last.
LoggerStart ==
    [name |-> "DefaultLogger", logLevel |-> INFO, enabled |-> TRUE,
     logBuffer |-> <<>>, call |-> [op |-> "Logger", arg |-> <<>>]]

\* log that also drops the messages of the current level.
DoLogAboveLevelOnly(level, message, l) ==
    IF ~l.enabled \/ level <= l.logLevel THEN l
    ELSE [l EXCEPT !.logBuffer =
             Append(@, <<"[", LevelStr(level), "] ", l.name, ": ", message>>)]

\* log(level, message).
DoLog(level, message, l) ==
    IF ~l.enabled \/ level < l.logLevel THEN l
    ELSE [l EXCEPT !.logBuffer =
             Append(@, <<"[", LevelStr(level), "] ", l.name, ": ", message>>)]

\* trace(message); debug(message); info(message); warn(message);
\* error(message); fatal(message); from the call for level on.
RECURSIVE TraceToFatal(_, _, _)
TraceToFatal(level, message, l) ==
    IF level > FATAL THEN l
    ELSE TraceToFatal(level + 1, message, DoLog(level, message, l))

\* The logger as member function op(arg) finds it.
LoggerCalled(op, arg, l) == [l EXCEPT !.call = [op |-> op, arg |-> arg]]

\* ------------------------------------------------- class AsciiArtGenerator

\* int, IntBits wide.
IntMin == 0 - 2 ^ (IntBits - 1)
IntMax == 2 ^ (IntBits - 1) - 1

\* The value an int holds after a computation whose exact result is v, on a
\* build whose arithmetic wraps.
Wrap(v) == ((v - IntMin) % 2 ^ IntBits) + IntMin

\* The local variables of drawLine while no call of it is in progress.
NoLine ==
    [active |-> FALSE, x1 |-> 0, y1 |-> 0, x2 |-> 0, y2 |-> 0, dx |-> 0,
     dy |-> 0, sx |-> 0, sy |-> 0, err |-> 0, ch |-> " "]

\* The constructor. exit tells how the member function called last ended:
\* "returned", "threw" (std::length_error of std::string) or "trapped" (a
\* build that traps on signed overflow).
AsciiArtGenerator(w, h, defaultCh) ==
    [width |-> w, height |-> h, defaultChar |-> defaultCh,
     canvas |-> [k \in 1..(w * h) |-> defaultCh],
     call |-> [op |-> "AsciiArtGenerator", arg |-> <<w, h>>, exit |-> "returned"],
     line |-> NoLine]

\* The generator as member function op(arg) finds it.
GeneratorCalled(op, arg, g) ==
    [g EXCEPT !.call = [op |-> op, arg |-> arg, exit |-> "returned"]]

\* canvas = std::string(width * height, ch): a negative product converts to
\* a size_t above max_size() and the constructor throws before canvas is
\* assigned.
NewCanvas(ch, g) ==
    IF g.width * g.height < 0 THEN [g EXCEPT !.call.exit = "threw"]
    ELSE [g EXCEPT !.canvas = [k \in 1..(g.width * g.height) |-> ch]]

\* setPixel(x, y, ch); canvas[0] is the first element of the sequence.
DoSetPixel(x, y, ch, g) ==
    IF x >= 0 /\ x < g.width /\ y >= 0 /\ y < g.height
    THEN [g EXCEPT !.canvas[y * g.width + x + 1] = ch]
    ELSE g

\* getPixel(x, y), "NUL" for the character '\0'.
getPixel(x, y, g) ==
    IF x >= 0 /\ x < g.width /\ y >= 0 /\ y < g.height
    THEN g.canvas[y * g.width + x + 1]
    ELSE "NUL"

\* clear() and fill(ch).
DoClear(g) == NewCanvas(g.defaultChar, g)
DoFill(ch, g) == NewCanvas(ch, g)

\* resize(newWidth, newHeight): the sizes are assigned before the string is
\* constructed.
DoResize(newWidth, newHeight, g) ==
    NewCanvas(g.defaultChar, [g EXCEPT !.width = newWidth, !.height = newHeight])

\* setPixel(x, y, ch) for every <<x, y>> of cells, in any order.
RECURSIVE SetPixels(_, _, _)
SetPixels(cells, ch, g) ==
    IF cells = {} THEN g
    ELSE LET c == CHOOSE c \in cells : TRUE
         IN  SetPixels(cells \ {c}, ch, DoSetPixel(c[1], c[2], ch, g))

\* drawText(x, y, text, ch) for a text of length len.
DoDrawText(x, y, len, ch, g) ==
    SetPixels({<<x + i, y>> : i \in 0..(len - 1)}, ch, g)

\* drawRectangle(x1, y1, x2, y2, ch, true).
DoDrawRectangle(x1, y1, x2, y2, ch, g) ==
    SetPixels({<<x, y>> : x \in x1..x2, y \in y1..y2}, ch, g)

\* drawCircle(centerX, centerY, radius, ch, filled).
DoDrawCircle(centerX, centerY, radius, ch, filled, g) ==
    SetPixels({<<centerX + x, centerY + y>> :
                  <<x, y>> \in {c \in ((0 - radius)..radius) \X ((0 - radius)..radius) :
                      /\ c[1] * c[1] + c[2] * c[2] <= radius * radius
                      /\ filled \/ c[1] * c[1] + c[2] * c[2] >=
                                       (radius - 1) * (radius - 1)}},
              ch, g)

\* abs(v) of <cstdlib>: abs(INT_MIN) does not fit an int.
abs(v) == IF v < 0 THEN 0 - v ELSE v

\* drawLine(x1, y1, x2, y2, ch) up to its loop. When a signed operation
\* overflows, the build either wraps the value or, with trap set, ends the
\* process.
DoDrawLine(x1, y1, x2, y2, ch, trap, g) ==
    LET ddx == x2 - x1
        ddy == y2 - y1
        adx == abs(Wrap(ddx))
        ady == abs(Wrap(ddy))
        dx  == Wrap(adx)
        dy  == Wrap(ady)
        overflow == \E v \in {ddx, ddy, adx, ady, dx - dy} : v # Wrap(v)
    IN  IF overflow /\ trap THEN [g EXCEPT !.call.exit = "trapped"]
        ELSE [g EXCEPT !.line =
                 [active |-> TRUE, x1 |-> x1, y1 |-> y1, x2 |-> x2, y2 |-> y2,
                  dx |-> dx, dy |-> dy,
                  sx |-> IF x1 < x2 THEN 1 ELSE -1,
                  sy |-> IF y1 < y2 THEN 1 ELSE -1,
                  err |-> Wrap(dx - dy), ch |-> ch]]

\* One iteration of the loop of drawLine.
DoDrawLineStep(trap, g) ==
    LET l     == g.line
        drawn == DoSetPixel(l.x1, l.y1, l.ch, g)
        e2    == Wrap(2 * l.err)
        negdy == Wrap(0 - l.dy)
        movex == e2 > negdy
        errx  == IF movex THEN l.err - l.dy ELSE l.err
        nx    == IF movex THEN l.x1 + l.sx ELSE l.x1
        movey == e2 < l.dx
        erry  == IF movey THEN Wrap(errx) + l.dx ELSE Wrap(errx)
        ny    == IF movey THEN l.y1 + l.sy ELSE l.y1
        overflow == \E v \in {2 * l.err, 0 - l.dy, errx, nx, erry, ny} :
                        v # Wrap(v)
    IN  IF l.x1 = l.x2 /\ l.y1 = l.y2 THEN [drawn EXCEPT !.line = NoLine]
        ELSE IF overflow /\ trap
        THEN [drawn EXCEPT !.line = NoLine, !.call.exit = "trapped"]
        ELSE [drawn EXCEPT !.line.x1 = Wrap(nx), !.line.y1 = Wrap(ny),
                           !.line.err = Wrap(erry)]

\* No host program runs.
NoHost ==
    /\ runner = RunnerStart("ascii")
    /\ logger = LoggerStart
    /\ generator = AsciiArtGenerator(0, 0, " ")

\* No ESP32 harness program runs.
NoHarness ==
    /\ harness = "none"
    /\ esp_test_sections = <<>>
    /\ esp_next = 1
    /\ esp_totals = <<>>
    /\ esp_call = EspCall("none", <<>>)

\* The runner after its constructor, in an environment whose callables throw
\* as one of throwSets says.
RunnerConstructed(throwSets) ==
    /\ failing \in SetsUpTo(MaxFailing)
    /\ throwing \in throwSets
    /\ ms \in Durations
    /\ listed = <<>>
    /\ exit_status = Running
    /\ test_sections = initializeTestSections
    /\ all_results = <<>>
    /\ call = [op |-> "constructor", arg |-> <<>>, exit |-> "completed"]
    /\ invoked = <<>>
    /\ rates = <<>>
    /\ results_before = 0

\* The state after the constructor: no other program of the repository runs.
Constructed(throwSets) ==
    /\ RunnerConstructed(throwSets)
    /\ NoHarness
    /\ wifi = WifiStart
    /\ NoHost
    /\ config = DefaultConfig
    /\ pwm = PwmStart({})
    /\ spi = SpiStart

\* A session whose callables all return.
Init == Constructed({{}})

\* A session in which one callable throws instead of returning.
ThrowSets == {{t} : t \in FailCandidates}
InitThrow == Constructed(ThrowSets)

runSection ==
    \E section \in NamedSections :
        Ran("runSection", <<section>>, DoRunSection(section, Machine, Env))

runAllSections ==
    Ran("runAllSections", <<>>, DoRunAllSections(Machine, Env))

runSelectedSections ==
    \E sections \in ListsUpTo(MaxSelected) :
        Ran("runSelectedSections", sections,
            DoRunSelectedSections(sections, Machine, Env))

printOverallSummary ==
    Ran("printOverallSummary", <<>>, DoPrintOverallSummary(Machine))

enableSection ==
    \E section \in NamedSections, enable \in BOOLEAN :
        Ran("enableSection", <<section, enable>>,
            [Machine EXCEPT !.test_sections =
                DoEnableSection(section, enable, test_sections)])

enableAllSections ==
    Ran("enableAllSections", <<>>,
        [Machine EXCEPT !.test_sections = DoEnableAllSections(test_sections)])

disableAllSections ==
    Ran("disableAllSections", <<>>,
        [Machine EXCEPT !.test_sections = DoDisableAllSections(test_sections)])

clearResults ==
    Ran("clearResults", <<>>,
        [Machine EXCEPT !.all_results = DoClearResults(all_results)])

setSectionTimeout ==
    \E section \in NamedSections, timeout_seconds \in Timeouts :
        Ran("setSectionTimeout", <<section, timeout_seconds>>,
            [Machine EXCEPT !.test_sections =
                DoSetSectionTimeout(section, timeout_seconds, test_sections)])

listSections ==
    Ran("listSections", <<>>, DoListSections(Machine))

listEnabledSections ==
    Ran("listEnabledSections", <<>>, DoListEnabledSections(Machine))

\* A call of the accessor getEnabledSections(); listed is the vector returned.
callGetEnabledSections ==
    Ran("getEnabledSections", <<>>, [Machine EXCEPT !.listed = getEnabledSections])

\* ----------------------------------------------------- the command line

\* stringToGpioTestSection: the enumerator a section name stands for; a
\* string that is none of the seven names yields BASIC_GPIO_OPERATIONS.
stringToGpioTestSection(str) ==
    CASE str = "basic_gpio_operations" -> BASIC_GPIO_OPERATIONS
      [] str = "gpio_interrupts" -> GPIO_INTERRUPTS
      [] str = "gpio_pwm_functionality" -> GPIO_PWM_FUNCTIONALITY
      [] str = "gpio_analog_reads" -> GPIO_ANALOG_READS
      [] str = "gpio_stress_testing" -> GPIO_STRESS_TESTING
      [] str = "gpio_edge_cases" -> GPIO_EDGE_CASES
      [] str = "all_sections" -> ALL_SECTIONS
      [] OTHER -> BASIC_GPIO_OPERATIONS

\* The section names stringToGpioTestSection compares with.
SectionNames ==
    {"basic_gpio_operations", "gpio_interrupts", "gpio_pwm_functionality",
     "gpio_analog_reads", "gpio_stress_testing", "gpio_edge_cases",
     "all_sections"}

\* The commands main compares argv[1] with, and the section each run
\* command names.
RunCommands ==
    [basic |-> BASIC_GPIO_OPERATIONS, interrupts |-> GPIO_INTERRUPTS,
     pwm |-> GPIO_PWM_FUNCTIONALITY, analog |-> GPIO_ANALOG_READS,
     stress |-> GPIO_STRESS_TESTING, edge |-> GPIO_EDGE_CASES]

\* The command lines given to main, without argv[0]: no argument, each
\* command, enable and disable with each section name, with a string that
\* is no section name and without an argument, and a string that is no
\* command.
CommandLines ==
    {<<>>, <<"list">>, <<"all">>, <<"enabled">>, <<"stats">>, <<"clear">>,
     <<"enable">>, <<"disable">>, <<"bogus">>}
    \cup {<<c>> : c \in DOMAIN RunCommands}
    \cup {<<c, n>> : c \in {"enable", "disable"}, n \in SectionNames \cup {"bogus"}}

\* The if-chain of main on the machine m of the object `test` it constructed.
DoMain(argv, m, env) ==
    IF argv = <<>> THEN m
    ELSE LET command == argv[1] IN
         CASE command = "list" -> DoListSections(m)
           [] command = "all" -> DoRunAllSections(m, env)
           [] command \in DOMAIN RunCommands ->
                DoRunSection(RunCommands[command], m, env)
           [] command = "enable" /\ Len(argv) > 1 ->
                [m EXCEPT !.test_sections =
                    DoEnableSection(stringToGpioTestSection(argv[2]), TRUE, @)]
           [] command = "disable" /\ Len(argv) > 1 ->
                [m EXCEPT !.test_sections =
                    DoEnableSection(stringToGpioTestSection(argv[2]), FALSE, @)]
           [] command = "enabled" -> DoListEnabledSections(m)
           [] command = "stats" -> m
           [] command = "clear" ->
                [m EXCEPT !.all_results = DoClearResults(@)]
           [] OTHER -> m

\* The status main returns: every path ends in `return 0`.
MainStatus(m) == 0

\* One process: main constructs `test`, runs the command and returns.
main ==
    /\ exit_status = Running
    /\ call.op = "constructor"
    /\ \E argv \in CommandLines :
         LET m == DoMain(argv, Machine, Env)
         IN /\ test_sections' = m.test_sections
            /\ all_results' = m.all_results
            /\ call' = [op |-> "main", arg |-> argv, exit |-> m.exit]
            /\ invoked' = m.invoked
            /\ rates' = m.rates
            /\ listed' = m.listed
            /\ results_before' = Len(all_results)
            /\ exit_status' = MainStatus(m)
            /\ UNCHANGED <<failing, throwing, ms, espvars, drivervars,
                 config, hostvars>>

SpecMain == Init /\ [][main]_vars

\* ------------------------------------- the I2C, WiFi and Bluetooth harnesses

\* The branches of run_test_section, one per section name, in the order of
\* the global array test_sections[]: the value the branch assigns to
\* total_tests, whether its checks are inside `if (test_*_init() == ESP_OK)`
\* (gated), the functions whose result counts a pass or a failure ("init"
\* and "deinit" are test_*_init and test_*_deinit, "test" any other test
\* function), what the else branch of a gated section adds to
\* failed_tests, and whether the branch ends with an uncounted
\* test_*_deinit().
Branch(name, total, gated, checks, adds, cleanup) ==
    [section_name |-> name, total_tests |-> total, gated |-> gated,
     checks |-> checks, init_failed_adds |-> adds, cleanup |-> cleanup]

I2cBranches ==
    <<Branch("I2C_INITIALIZATION", 2, FALSE, <<"init", "deinit">>, 0, FALSE),
      Branch("I2C_BASIC_OPERATIONS", 1, TRUE, <<"test">>, 1, TRUE),
      Branch("I2C_ERROR_HANDLING", 2, TRUE, <<"test", "test">>, 2, TRUE),
      Branch("I2C_PERFORMANCE", 1, TRUE, <<"test">>, 1, TRUE),
      Branch("I2C_STRESS_TESTING", 2, TRUE, <<"test", "test">>, 2, TRUE)>>

WifiBranches ==
    <<Branch("WIFI_INITIALIZATION", 2, FALSE, <<"init", "deinit">>, 0, FALSE),
      Branch("WIFI_BASIC_OPERATIONS", 2, TRUE, <<"test", "deinit">>, 2, FALSE),
      Branch("WIFI_CONNECTIVITY", 3, TRUE, <<"test", "test", "test">>, 3, TRUE),
      Branch("WIFI_PERFORMANCE", 3, TRUE, <<"test", "test", "test">>, 3, TRUE),
      Branch("WIFI_STRESS_TESTING", 2, TRUE, <<"test", "test">>, 2, TRUE),
      Branch("WIFI_ERROR_HANDLING", 2, TRUE, <<"test", "test">>, 2, TRUE)>>

BluetoothBranches ==
    <<Branch("BLUETOOTH_INITIALIZATION", 2, FALSE, <<"init", "deinit">>, 0, FALSE),
      Branch("BLUETOOTH_BASIC_OPERATIONS", 3, TRUE,
             <<"test", "test", "deinit">>, 3, FALSE),
      Branch("BLUETOOTH_GATT_SERVER", 2, TRUE, <<"test", "test">>, 2, TRUE),
      Branch("BLUETOOTH_GATT_CLIENT", 2, TRUE, <<"test", "test">>, 2, TRUE),
      Branch("BLUETOOTH_PERFORMANCE", 2, TRUE, <<"test", "test">>, 2, TRUE),
      Branch("BLUETOOTH_STRESS_TESTING", 2, TRUE, <<"test", "test">>, 2, TRUE),
      Branch("BLUETOOTH_ERROR_HANDLING", 2, TRUE, <<"test", "test">>, 2, TRUE)>>

Harnesses == {"i2c", "wifi", "bluetooth"}

Branches(h) ==
    CASE h = "i2c" -> I2cBranches
      [] h = "wifi" -> WifiBranches
      [] h = "bluetooth" -> BluetoothBranches

\* The global array test_sections[] as it is initialized.
EspInitialSections(h) ==
    [i \in 1..Len(Branches(h)) |->
        [section_name |-> Branches(h)[i].section_name, enabled |-> TRUE,
         total_tests |-> 0, passed_tests |-> 0, failed_tests |-> 0]]

\* The branch of run_test_section for the section named `name`; no branch
\* matches a name the if-chain does not hold.
BranchOf(h, name) ==
    LET hits == {i \in 1..Len(Branches(h)) : Branches(h)[i].section_name = name}
    IN IF hits = {} THEN Branch(name, 0, FALSE, <<>>, 0, FALSE)
       ELSE Branches(h)[CHOOSE i \in hits : TRUE]

\* What a call of a function of the harness can end in: "ok" (ESP_OK),
\* "error" (another esp_err_t is returned) or "abort" (a driver call inside
\* ESP_ERROR_CHECK failed, which aborts the program).  wifi_init and
\* wifi_deinit check every driver call with ESP_ERROR_CHECK, bluetooth_init
\* checks its first calls with it and returns the error of the others.
Outcomes(h, fn) ==
    CASE fn = "init" /\ h = "wifi" -> {"ok", "abort"}
      [] fn = "init" /\ h = "bluetooth" -> {"ok", "error", "abort"}
      [] fn = "deinit" /\ h = "wifi" -> {"ok", "abort"}
      [] OTHER -> {"ok", "error"}

\* The calls a branch makes when none of them stops it, in order: the gate
\* of a gated branch, the checks, and the uncounted cleanup.
Calls(branch) ==
    (IF branch.gated THEN <<[fn |-> "init", role |-> "gate"]>> ELSE <<>>)
    \o [k \in 1..Len(branch.checks) |-> [fn |-> branch.checks[k], role |-> "check"]]
    \o (IF branch.cleanup THEN <<[fn |-> "deinit", role |-> "cleanup"]>> ELSE <<>>)

\* The results the calls of a branch can have, one per call.
CallResults(h, branch) ==
    {results \in [1..Len(Calls(branch)) -> {"ok", "error", "abort"}] :
        \A k \in 1..Len(Calls(branch)) :
            results[k] \in Outcomes(h, Calls(branch)[k].fn)}

\* ResetCounters that adds to the counters of the run before.
ResetCountersAccumulates(section, branch) ==
    [section EXCEPT !.total_tests = @ + branch.total_tests]

\* The head of run_test_section: the three counters are set to 0, and the
\* branch assigns total_tests.
ResetCounters(section, branch) ==
    [section EXCEPT !.total_tests = branch.total_tests,
                    !.passed_tests = 0,
                    !.failed_tests = 0]

\* GateFailed that counts one failure whatever the number of tests is.
GateFailedOneFailure(section, branch) ==
    [section EXCEPT !.failed_tests = @ + 1]

\* The else branch of `if (test_*_init() == ESP_OK)`.
GateFailed(section, branch) ==
    [section EXCEPT !.failed_tests = @ + branch.init_failed_adds]

\* The calls of a branch from call k on, with the results they have:
\* run = [section, invoked, aborted, gate_ok].
RECURSIVE Exec(_, _, _, _, _)
Exec(branch, calls, k, results, run) ==
    IF k > Len(calls) THEN run
    ELSE LET called == [run EXCEPT !.invoked = Append(@, calls[k])]
         IN CASE results[k] = "abort" ->
                   [called EXCEPT !.aborted = TRUE,
                                  !.gate_ok = @ /\ calls[k].role # "gate"]
              [] results[k] # "abort" /\ calls[k].role = "gate" ->
                   IF results[k] = "ok"
                   THEN Exec(branch, calls, k + 1, results, called)
                   ELSE [called EXCEPT !.section = GateFailed(@, branch),
                                       !.gate_ok = FALSE]
              [] results[k] # "abort" /\ calls[k].role = "check" ->
                   Exec(branch, calls, k + 1, results,
                        IF results[k] = "ok"
                        THEN [called EXCEPT !.section.passed_tests = @ + 1]
                        ELSE [called EXCEPT !.section.failed_tests = @ + 1])
              [] OTHER -> Exec(branch, calls, k + 1, results, called)

\* run_test_section on the entry `section` of test_sections[].
DoRunTestSection(section, branch, results) ==
    Exec(branch, Calls(branch), 1, results,
         [section |-> ResetCounters(section, branch), invoked |-> <<>>,
          aborted |-> FALSE, gate_ok |-> TRUE])

\* enable_test_section: sets the flag of the first entry with that name.
DoEnableTestSection(name, enable, sections) ==
    LET hits == {i \in 1..Len(sections) : sections[i].section_name = name}
    IN IF hits = {} THEN sections
       ELSE [sections EXCEPT ![CHOOSE i \in hits : \A j \in hits : i <= j].enabled
                                = enable]

\* The sums print_test_results builds over the enabled entries, from entry i on.
RECURSIVE SumEnabled(_, _, _)
SumEnabled(sections, i, acc) ==
    IF i > Len(sections) THEN acc
    ELSE SumEnabled(sections, i + 1,
            IF sections[i].enabled
            THEN [total_tests |-> acc.total_tests + sections[i].total_tests,
                  total_passed |-> acc.total_passed + sections[i].passed_tests,
                  total_failed |-> acc.total_failed + sections[i].failed_tests]
            ELSE acc)

DoPrintTestResults(sections) ==
    SumEnabled(sections, 1,
               [total_tests |-> 0, total_passed |-> 0, total_failed |-> 0])

\* The section names given to enable_test_section: the first and the last
\* section of the harness and a name that no section has.
EspNames(h) ==
    {Branches(h)[1].section_name, Branches(h)[Len(Branches(h))].section_name,
     "NO_SUCH_SECTION"}

\* One of the three programs starts: app_main before it parses its arguments.
InitEsp ==
    /\ harness \in Harnesses
    /\ esp_test_sections = EspInitialSections(harness)
    /\ esp_next = 1
    /\ esp_totals = <<>>
    /\ esp_call = EspCall("app_main", <<>>)
    /\ wifi = WifiStart
    /\ NoHost
    /\ config = DefaultConfig
    /\ pwm = PwmStart({})
    /\ spi = SpiStart
    /\ failing = {}
    /\ throwing = {}
    /\ ms = 0
    /\ listed = <<>>
    /\ exit_status = Running
    /\ test_sections = initializeTestSections
    /\ all_results = <<>>
    /\ call = [op |-> "constructor", arg |-> <<>>, exit |-> "completed"]
    /\ invoked = <<>>
    /\ rates = <<>>
    /\ results_before = 0

\* app_main parsing --section / --disable-section, before run_all_tests.
enable_test_section ==
    /\ esp_call.op \in {"app_main", "enable_test_section"}
    /\ \E name \in EspNames(harness), enable \in BOOLEAN :
         /\ esp_test_sections' = DoEnableTestSection(name, enable, esp_test_sections)
         /\ esp_call' = EspCall("enable_test_section", <<name, enable>>)
    /\ UNCHANGED <<harness, esp_next, esp_totals, gpiovars, drivervars,
                 config, hostvars>>

\* run_test_section(i) with one of the results its calls can have.
RunsTestSection(i) ==
    LET section == esp_test_sections[i]
        branch == BranchOf(harness, section.section_name)
    IN \E results \in CallResults(harness, branch) :
         LET run == DoRunTestSection(section, branch, results)
         IN /\ esp_test_sections' = [esp_test_sections EXCEPT ![i] = run.section]
            /\ esp_call' = [op |-> "run_test_section",
                            arg |-> <<i, run.gate_ok>>,
                            invoked |-> run.invoked,
                            total_before |-> section.total_tests,
                            aborted |-> run.aborted]

\* One iteration of the loop of run_all_tests on an enabled section:
\* run_test_section(i), after which the task sleeps in vTaskDelay.
run_test_section ==
    /\ ~esp_call.aborted
    /\ esp_totals = <<>>
    /\ esp_next <= Len(esp_test_sections)
    /\ esp_test_sections[esp_next].enabled
    /\ RunsTestSection(esp_next)
    /\ esp_next' = esp_next + 1
    /\ UNCHANGED <<harness, esp_totals, gpiovars, drivervars,
                 config, hostvars>>

\* One iteration of the loop of run_all_tests on a disabled section.
run_all_tests_skip ==
    /\ ~esp_call.aborted
    /\ esp_totals = <<>>
    /\ esp_next <= Len(esp_test_sections)
    /\ ~esp_test_sections[esp_next].enabled
    /\ esp_next' = esp_next + 1
    /\ esp_call' = EspCall("run_all_tests", <<esp_next>>)
    /\ UNCHANGED <<harness, esp_test_sections, esp_totals, gpiovars, drivervars,
                 config, hostvars>>

\* app_main after run_all_tests returned.
print_test_results ==
    /\ ~esp_call.aborted
    /\ esp_totals = <<>>
    /\ esp_next = Len(esp_test_sections) + 1
    /\ esp_totals' = <<DoPrintTestResults(esp_test_sections)>>
    /\ esp_call' = EspCall("print_test_results", <<>>)
    /\ UNCHANGED <<harness, esp_test_sections, esp_next, gpiovars, drivervars,
                 config, hostvars>>

\* The sections a caller of run_test_section names: the *_INITIALIZATION
\* section, the first section with a leading init, and the last section.
EspRunIndices(h) == {1, 2, Len(Branches(h))}

\* run_test_section(i) called on its own, any number of times.
call_run_test_section ==
    /\ ~esp_call.aborted
    /\ \E i \in EspRunIndices(harness) : RunsTestSection(i)
    /\ UNCHANGED <<harness, esp_next, esp_totals, gpiovars, drivervars,
                 config, hostvars>>

\* Calls of run_test_section in any order, with repetitions.
SpecEspCalls == InitEsp /\ [][call_run_test_section]_vars

NextEsp ==
    \/ enable_test_section
    \/ run_test_section
    \/ run_all_tests_skip
    \/ print_test_results

SpecEsp == InitEsp /\ [][NextEsp]_vars

\* The runner's methods other than runSelectedSections.
Next ==
    \/ runSection
    \/ runAllSections
    \/ printOverallSummary
    \/ enableSection
    \/ enableAllSections
    \/ disableAllSections
    \/ clearResults

Spec == Init /\ [][Next]_vars

\* All of the runner's methods.
NextSelected ==
    \/ runSection
    \/ runAllSections
    \/ runSelectedSections
    \/ printOverallSummary
    \/ enableSection
    \/ enableAllSections
    \/ disableAllSections
    \/ clearResults

\* The durations play no part in what the methods run: they are left at 0.
InitSelected == Init /\ ms = 0

SpecSelected == InitSelected /\ [][NextSelected]_vars

\* The methods that set and that could read a section's timeout.
NextTimeout ==
    \/ setSectionTimeout
    \/ runSection
    \/ runAllSections
    \/ disableAllSections
    \/ clearResults

SpecTimeout == Init /\ [][NextTimeout]_vars

\* The same methods, called in a session with a callable that throws.
SpecThrow == InitThrow /\ [][Next]_vars

\* The methods that sweep the registry, and those that set what they read.
NextListing ==
    \/ runSection
    \/ runAllSections
    \/ enableSection
    \/ enableAllSections
    \/ disableAllSections
    \/ listSections
    \/ listEnabledSections
    \/ callGetEnabledSections

SpecListing == Init /\ [][NextListing]_vars

\* ------------------------------------------------ WiFi and Bluetooth glue

\* WifiComprehensiveTest.cpp: #define MAXIMUM_RETRY.
MAXIMUM_RETRY == 5

\* The events the event loop hands to event_handler: it is registered for
\* every WIFI_EVENT id and for IP_EVENT_STA_GOT_IP.
WifiEvents ==
    {"WIFI_EVENT_STA_START", "WIFI_EVENT_STA_DISCONNECTED",
     "IP_EVENT_STA_GOT_IP", "WIFI_EVENT_SCAN_DONE"}

\* The handler retrying while s_retry_num <= MAXIMUM_RETRY.
DoEventHandlerRetriesOnceMore(event, w) ==
    CASE event = "WIFI_EVENT_STA_START" ->
           [w EXCEPT !.call = DriverCall("event_handler", <<event>>, "void",
                                         <<"esp_wifi_connect">>)]
      [] event = "WIFI_EVENT_STA_DISCONNECTED" ->
           IF w.s_retry_num <= MAXIMUM_RETRY
           THEN [w EXCEPT !.s_retry_num = @ + 1,
                          !.reconnects = @ + 1,
                          !.call = DriverCall("event_handler", <<event>>, "void",
                                              <<"esp_wifi_connect">>)]
           ELSE [w EXCEPT !.s_wifi_event_group = @ \cup {"WIFI_FAIL_BIT"},
                          !.ever_set = @ \cup {"WIFI_FAIL_BIT"},
                          !.call = DriverCall("event_handler", <<event>>, "void",
                                              <<"xEventGroupSetBits">>)]
      [] event = "IP_EVENT_STA_GOT_IP" ->
           [w EXCEPT !.s_retry_num = 0,
                     !.reconnects = 0,
                     !.s_wifi_event_group = @ \cup {"WIFI_CONNECTED_BIT"},
                     !.ever_set = @ \cup {"WIFI_CONNECTED_BIT"},
                     !.call = DriverCall("event_handler", <<event>>, "void",
                                         <<"xEventGroupSetBits">>)]
      [] OTHER ->
           [w EXCEPT !.call = DriverCall("event_handler", <<event>>, "void", <<>>)]

\* event_handler(arg, event_base, event_id, event_data) on the statics w.
DoEventHandler(event, w) ==
    CASE event = "WIFI_EVENT_STA_START" ->
           [w EXCEPT !.call = DriverCall("event_handler", <<event>>, "void",
                                         <<"esp_wifi_connect">>)]
      [] event = "WIFI_EVENT_STA_DISCONNECTED" ->
           IF w.s_retry_num < MAXIMUM_RETRY
           THEN [w EXCEPT !.s_retry_num = @ + 1,
                          !.reconnects = @ + 1,
                          !.call = DriverCall("event_handler", <<event>>, "void",
                                              <<"esp_wifi_connect">>)]
           ELSE [w EXCEPT !.s_wifi_event_group = @ \cup {"WIFI_FAIL_BIT"},
                          !.ever_set = @ \cup {"WIFI_FAIL_BIT"},
                          !.call = DriverCall("event_handler", <<event>>, "void",
                                              <<"xEventGroupSetBits">>)]
      [] event = "IP_EVENT_STA_GOT_IP" ->
           [w EXCEPT !.s_retry_num = 0,
                     !.reconnects = 0,
                     !.s_wifi_event_group = @ \cup {"WIFI_CONNECTED_BIT"},
                     !.ever_set = @ \cup {"WIFI_CONNECTED_BIT"},
                     !.call = DriverCall("event_handler", <<event>>, "void",
                                         <<"xEventGroupSetBits">>)]
      [] OTHER ->
           [w EXCEPT !.call = DriverCall("event_handler", <<event>>, "void", <<>>)]

\* xEventGroupWaitBits(s_wifi_event_group, WIFI_CONNECTED_BIT | WIFI_FAIL_BIT,
\* clear_on_exit, pdFALSE, ticks) returning: the value it returns is the
\* group's at that moment, and it clears the awaited bits afterwards only
\* when asked to and one of them was set.
xEventGroupWaitBits(group, clear_on_exit) ==
    [bits |-> group,
     group |-> IF clear_on_exit /\ group # {} THEN {} ELSE group]

\* The test functions that wait on the event group, each with the driver
\* calls it issues before the wait.
WaitingTests ==
    [test_wifi_connect |->
         <<"esp_wifi_set_mode", "esp_wifi_set_config", "esp_wifi_start">>,
     test_wifi_reconnect |-> <<"esp_wifi_disconnect", "esp_wifi_connect">>,
     test_wifi_stress_connect |-> <<"esp_wifi_connect">>,
     test_wifi_invalid_credentials |->
         <<"esp_wifi_set_config", "esp_wifi_connect">>,
     test_wifi_timeout_handling |-> <<>>]

\* What a waiting test returns for the bits its wait returned.
WaitResult(test, bits) ==
    CASE test = "test_wifi_connect" ->
           IF "WIFI_CONNECTED_BIT" \in bits THEN "ESP_OK"
           ELSE IF "WIFI_FAIL_BIT" \in bits THEN "ESP_FAIL"
           ELSE "ESP_ERR_TIMEOUT"
      [] test = "test_wifi_reconnect" ->
           IF "WIFI_CONNECTED_BIT" \in bits THEN "ESP_OK" ELSE "ESP_FAIL"
      [] test = "test_wifi_stress_connect" ->
           IF "WIFI_FAIL_BIT" \in bits THEN "ESP_FAIL" ELSE "ESP_OK"
      [] test = "test_wifi_invalid_credentials" ->
           IF "WIFI_FAIL_BIT" \in bits THEN "ESP_OK" ELSE "ESP_FAIL"
      [] OTHER -> IF bits = {} THEN "ESP_OK" ELSE "ESP_FAIL"

\* A waiting test whose wait clears the bits on exit.
DoWaitingTestClearOnExit(test, fail_at, w) ==
    IF fail_at > 0
    THEN [w EXCEPT !.call = DriverCall(test, <<>>, "error",
                                       SubSeq(WaitingTests[test], 1, fail_at))]
    ELSE LET waited == xEventGroupWaitBits(w.s_wifi_event_group, TRUE)
         IN  [w EXCEPT !.s_wifi_event_group = waited.group,
                       !.call = DriverCall(test, <<>>,
                                           WaitResult(test, waited.bits),
                                           WaitingTests[test])]

\* A waiting test up to its first wait: the driver call number fail_at
\* returns an error (0: none does), which the test returns at once.
DoWaitingTest(test, fail_at, w) ==
    IF fail_at > 0
    THEN [w EXCEPT !.call = DriverCall(test, <<>>, "error",
                                       SubSeq(WaitingTests[test], 1, fail_at))]
    ELSE LET waited == xEventGroupWaitBits(w.s_wifi_event_group, FALSE)
         IN  [w EXCEPT !.s_wifi_event_group = waited.group,
                       !.call = DriverCall(test, <<>>,
                                           WaitResult(test, waited.bits),
                                           WaitingTests[test])]

\* The steps of wifi_init / bluetooth_init ("init") and of wifi_deinit /
\* bluetooth_deinit ("deinit") after the flag test, each with what the
\* function does when the step returns an error: ESP_ERROR_CHECK aborts the
\* program, the Bluetooth functions return the error, and the result of
\* esp_netif_create_default_wifi_sta is not looked at.
Steps(h, fn) ==
    CASE h = "wifi" /\ fn = "init" ->
           << <<"nvs_flash_init", "abort">>,
              <<"esp_netif_init", "abort">>,
              <<"esp_event_loop_create_default", "abort">>,
              <<"esp_netif_create_default_wifi_sta", "ignored">>,
              <<"esp_wifi_init", "abort">>,
              <<"esp_event_handler_instance_t::create", "abort">>,
              <<"esp_event_handler_instance_t::create", "abort">> >>
      [] h = "wifi" /\ fn = "deinit" ->
           << <<"esp_wifi_stop", "abort">>,
              <<"esp_wifi_deinit", "abort">>,
              <<"esp_event_loop_delete_default", "abort">>,
              <<"esp_netif_deinit", "abort">> >>
      [] h = "bluetooth" /\ fn = "init" ->
           << <<"nvs_flash_init", "abort">>,
              <<"esp_bt_controller_mem_release", "abort">>,
              <<"esp_bt_controller_init", "error">>,
              <<"esp_bt_controller_enable", "error">>,
              <<"esp_bluedroid_init", "error">>,
              <<"esp_bluedroid_enable", "error">>,
              <<"esp_ble_gatts_register_callback", "error">>,
              <<"esp_ble_gap_register_callback", "error">>,
              <<"esp_ble_gatts_app_register", "error">> >>
      [] OTHER ->
           << <<"esp_bluedroid_disable", "error">>,
              <<"esp_bluedroid_deinit", "error">>,
              <<"esp_bt_controller_disable", "error">>,
              <<"esp_bt_controller_deinit", "error">> >>

\* The steps of Steps(h, fn) that can make the function fail.
FailingSteps(h, fn) ==
    {k \in 1..Len(Steps(h, fn)) : Steps(h, fn)[k][2] # "ignored"}

\* The driver calls issued by the first n steps.
StepCalls(h, fn, n) == [k \in 1..n |-> Steps(h, fn)[k][1]]

\* An init or deinit that sets the flag before its steps.
DoInitOrDeinitFlagFirst(h, fn, fail_at, w) ==
    LET target == (fn = "init")
        n      == Len(Steps(h, fn))
    IN  IF w.initialized = target
        THEN [w EXCEPT !.call = DriverCall(fn, <<>>, "ESP_OK", <<>>)]
        ELSE IF fail_at = 0
        THEN [w EXCEPT !.initialized = target,
                       !.call = DriverCall(fn, <<>>, "ESP_OK", StepCalls(h, fn, n))]
        ELSE [w EXCEPT !.initialized = target,
                       !.call = DriverCall(fn, <<>>, Steps(h, fn)[fail_at][2],
                                           StepCalls(h, fn, fail_at))]

\* wifi_init / bluetooth_init (fn = "init") and wifi_deinit /
\* bluetooth_deinit (fn = "deinit") of program h, where step number fail_at
\* returns an error (0: every step succeeds).
DoInitOrDeinit(h, fn, fail_at, w) ==
    LET target == (fn = "init")
        n      == Len(Steps(h, fn))
    IN  IF w.initialized = target
        THEN [w EXCEPT !.call = DriverCall(fn, <<>>, "ESP_OK", <<>>)]
        ELSE IF fail_at = 0
        THEN [w EXCEPT !.initialized = target,
                       !.call = DriverCall(fn, <<>>, "ESP_OK", StepCalls(h, fn, n))]
        ELSE [w EXCEPT !.call = DriverCall(fn, <<>>, Steps(h, fn)[fail_at][2],
                                           StepCalls(h, fn, fail_at))]

\* The WiFi or the Bluetooth program starts.
InitWifi ==
    /\ InitEsp
    /\ harness \in {"wifi", "bluetooth"}

\* The event loop task delivers an event to the registered handler.
event_handler ==
    /\ harness = "wifi"
    /\ wifi.initialized
    /\ wifi.call.ret # "abort"
    /\ \E event \in WifiEvents : wifi' = DoEventHandler(event, wifi)
    /\ UNCHANGED <<gpiovars, config, hostvars, espvars, pwm, spi>>

\* One of the waiting tests runs and returns.
waiting_test ==
    /\ harness = "wifi"
    /\ wifi.call.ret # "abort"
    /\ \E test \in DOMAIN WaitingTests :
         \E fail_at \in 0..Len(WaitingTests[test]) :
           wifi' = DoWaitingTest(test, fail_at, wifi)
    /\ UNCHANGED <<gpiovars, config, hostvars, espvars, pwm, spi>>

\* wifi_init() / bluetooth_init() is called.
driver_init ==
    /\ wifi.call.ret # "abort"
    /\ \E fail_at \in {0} \cup FailingSteps(harness, "init") :
         wifi' = DoInitOrDeinit(harness, "init", fail_at, wifi)
    /\ UNCHANGED <<gpiovars, config, hostvars, espvars, pwm, spi>>

\* wifi_deinit() / bluetooth_deinit() is called.
driver_deinit ==
    /\ wifi.call.ret # "abort"
    /\ \E fail_at \in {0} \cup FailingSteps(harness, "deinit") :
         wifi' = DoInitOrDeinit(harness, "deinit", fail_at, wifi)
    /\ UNCHANGED <<gpiovars, config, hostvars, espvars, pwm, spi>>

\* Events, waiting tests, init and deinit in any order.
SpecWifi ==
    InitWifi /\ [][\/ event_handler
                   \/ waiting_test
                   \/ driver_init
                   \/ driver_deinit]_vars

\* ------------------------------------------------------ PWM harness calls

\* The environments of the PWM harness: no driver function fails, or one does.
PwmEnvironments ==
    {{}} \cup {{f} : f \in {"ledc_channel_config", "ledc_set_duty", "ledc_stop"}}

\* The lists handed to run_specific_test_sections.
PwmSectionLists ==
    LET args == {-1, SECTION_BASIC_PWM, 3, SECTION_MAX}
    IN  {<<>>} \cup {<<a>> : a \in args} \cup {<<a, b>> : a, b \in args}

\* The PWM program before setup() runs anything.
InitPwm ==
    /\ RunnerConstructed({{}})
    /\ failing = {}
    /\ ms = 0
    /\ NoHarness
    /\ wifi = WifiStart
    /\ NoHost
    /\ config = DefaultConfig
    /\ pwm \in {PwmStart(f) : f \in PwmEnvironments}
    /\ spi = SpiStart

pwm_enable_test_section ==
    /\ pwm.test_result_count <= TestResultsSize
    /\ \E section \in {-1, SECTION_BASIC_PWM, SECTION_MAX}, enable \in BOOLEAN :
         pwm' = DoPwmEnableTestSection(section, enable,
                          PwmCalled("enable_test_section", <<section, enable>>, pwm))
    /\ UNCHANGED <<gpiovars, config, hostvars, espvars, wifi, spi>>

enable_test_group ==
    /\ pwm.test_result_count <= TestResultsSize
    /\ \E group \in {-1, GROUP_INITIALIZATION, GROUP_FUNCTIONALITY, GROUP_MAX},
          enable \in BOOLEAN :
         pwm' = DoEnableTestGroup(group, enable,
                          PwmCalled("enable_test_group", <<group, enable>>, pwm))
    /\ UNCHANGED <<gpiovars, config, hostvars, espvars, wifi, spi>>

run_pwm_comprehensive_tests ==
    /\ pwm.test_result_count <= TestResultsSize
    /\ pwm' = DoRunPwmComprehensiveTests(
                        PwmCalled("run_pwm_comprehensive_tests", <<>>, pwm))
    /\ UNCHANGED <<gpiovars, config, hostvars, espvars, wifi, spi>>

run_specific_test_sections ==
    /\ pwm.test_result_count <= TestResultsSize
    /\ \E sections \in PwmSectionLists :
         pwm' = DoRunSpecificTestSections(sections,
                          PwmCalled("run_specific_test_sections", <<sections>>, pwm))
    /\ UNCHANGED <<gpiovars, config, hostvars, espvars, wifi, spi>>

\* One of the seven section functions is called on results that
\* run_pwm_comprehensive_tests left, or at program start.
run_section_tests ==
    /\ pwm.call.op \in {"setup", "run_pwm_comprehensive_tests"}
    /\ \E section \in 0..(SECTION_MAX - 1) :
         pwm' = DoRunSectionTests(section,
                          PwmCalled("run_section_tests", <<section>>, pwm))
    /\ UNCHANGED <<gpiovars, config, hostvars, espvars, wifi, spi>>

\* run_frequency_tests() is called, after whatever was called before; past
\* the end of test_results the program is not followed any further.
run_frequency_tests ==
    /\ pwm.test_result_count <= TestResultsSize
    /\ pwm' = DoRunSectionTests(SECTION_FREQUENCY_TESTS,
                        PwmCalled("run_section_tests", <<SECTION_FREQUENCY_TESTS>>, pwm))
    /\ UNCHANGED <<gpiovars, config, hostvars, espvars, wifi, spi>>

\* Any sequence of calls of the public functions in which a section function
\* is called at program start or after run_pwm_comprehensive_tests.
SpecPwm ==
    InitPwm /\ [][\/ pwm_enable_test_section
                  \/ enable_test_group
                  \/ run_pwm_comprehensive_tests
                  \/ run_specific_test_sections
                  \/ run_section_tests]_vars

\* Any sequence of calls of run_frequency_tests() and
\* run_pwm_comprehensive_tests().
SpecPwmRepeated ==
    InitPwm /\ [][run_frequency_tests \/ run_pwm_comprehensive_tests]_vars

\* ------------------------------------------------------ SPI harness calls

\* The SPI program before setup().
InitSpi ==
    /\ RunnerConstructed({{}})
    /\ failing = {}
    /\ ms = 0
    /\ NoHarness
    /\ wifi = WifiStart
    /\ NoHost
    /\ config = DefaultConfig
    /\ pwm = PwmStart({})
    /\ spi \in {[SpiStart EXCEPT !.throwing = t] :
                   t \in {{}, {"testSpiTransfer16"}, {"testSpiClockSpeed"}}}

\* The section functions can be called: setup() has run, cleanupSpi() has
\* not, and at most MaxLeaked result arrays are unreachable.
SpiRunnable ==
    /\ spi.sectionResults # <<>>
    /\ spi.live <= TOTAL_SECTIONS + MaxLeaked

\* setup() runs, once.
spiSetup ==
    /\ spi.call.op = "none"
    /\ spi' = DoSpiSetup(SpiCalled("setup", <<>>, spi))
    /\ UNCHANGED <<gpiovars, config, hostvars, espvars, wifi, pwm>>

\* runSection(section), for a section or TOTAL_SECTIONS.
spiRunSection ==
    /\ SpiRunnable
    /\ \E section \in 0..TOTAL_SECTIONS :
         spi' = DoSpiRunSection(section, SpiCalled("runSection", <<section>>, spi))
    /\ UNCHANGED <<gpiovars, config, hostvars, espvars, wifi, pwm>>

\* runAllSections().
spiRunAllSections ==
    /\ SpiRunnable
    /\ spi' = SpiRunFrom(0, SpiCalled("runAllSections", <<>>, spi))
    /\ UNCHANGED <<gpiovars, config, hostvars, espvars, wifi, pwm>>

\* runSpecificSection(sectionIndex), for an index in or around the range.
runSpecificSection ==
    /\ SpiRunnable
    /\ \E sectionIndex \in -1..TOTAL_SECTIONS :
         spi' = DoRunSpecificSection(sectionIndex,
                    SpiCalled("runSpecificSection", <<sectionIndex>>, spi))
    /\ UNCHANGED <<gpiovars, config, hostvars, espvars, wifi, pwm>>

\* The lines read from Serial, after trim(), as their characters.
SpiInputLines ==
    {<<"a", "l", "l">>, <<"A", "L", "L">>, <<"h", "e", "l", "p">>,
     <<"Q", "u", "i", "t">>, <<"0">>, <<"6">>, <<"7">>, <<"-", "1">>,
     <<"x">>, <<"3", "x">>, <<>>}

\* loop() finds a line on Serial.
loop ==
    /\ SpiRunnable
    /\ \E input \in SpiInputLines :
         spi' = DoLoop(input, SpiCalled("loop", <<input>>, spi))
    /\ UNCHANGED <<gpiovars, config, hostvars, espvars, wifi, pwm>>

\* setup(), then section runs in any order.
SpecSpi ==
    InitSpi /\ [][\/ spiSetup
                  \/ spiRunSection
                  \/ spiRunAllSections
                  \/ runSpecificSection]_vars

\* setup(), then loop() over the lines that arrive.
SpecSpiLoop ==
    InitSpi /\ [][spiSetup \/ loop]_vars

\* ------------------------------------------------ the GPIO configuration

\* The values of TestConfig a caller passes.
TestConfigs ==
    [verbose_output : BOOLEAN, stop_on_failure : BOOLEAN,
     generate_report : BOOLEAN,
     report_filename : {"gpio_test_report.txt"},
     default_timeout_seconds : {0, 30}]

\* GpioComprehensiveTest(cfg) has run; the environment lets at most the
\* first test of the first section fail.
InitConfig ==
    /\ RunnerConstructed({{}})
    /\ failing \subseteq {SectionTests(BASIC_GPIO_OPERATIONS)[1]}
    /\ ms = 0
    /\ NoHarness
    /\ wifi = WifiStart
    /\ pwm = PwmStart({})
    /\ spi = SpiStart
    /\ NoHost
    /\ config \in TestConfigs

setConfig ==
    \E cfg \in TestConfigs :
       /\ config' = cfg
       /\ call' = [op |-> "setConfig", arg |-> <<cfg>>, exit |-> "completed"]
       /\ invoked' = <<>>
       /\ rates' = <<>>
       /\ listed' = <<>>
       /\ results_before' = Len(all_results)
       /\ UNCHANGED <<test_sections, all_results, exit_status, failing, throwing,
                      ms, espvars, drivervars, hostvars>>

\* A runner constructed with any configuration, reconfigured at any time.
SpecConfig ==
    InitConfig /\ [][\/ runSection
                     \/ runAllSections
                     \/ disableAllSections
                     \/ enableSection
                     \/ setConfig]_vars

\* -------------------------------------------------- host program calls

\* Every program of the repository other than the host programs is at rest.
InitOthers ==
    /\ RunnerConstructed({{}})
    /\ failing = {}
    /\ ms = 0
    /\ NoHarness
    /\ wifi = WifiStart
    /\ pwm = PwmStart({})
    /\ spi = SpiStart

\* The constructor of AsciiTestRunner or of LoggerTestRunner has run.
InitHost ==
    /\ InitOthers
    /\ config = DefaultConfig
    /\ runner \in {RunnerStart("ascii"), RunnerStart("logger")}
    /\ logger = LoggerStart
    /\ generator = AsciiArtGenerator(0, 0, " ")

\* The process runs, and the Performance section has room for the errors of
\* a run in which `slow` timed assertions fail.
HostRunnable(slow) ==
    /\ runner.exit = Running
    /\ \A i \in 1..Len(runner.testSections) :
         Len(runner.testSections[i].errors) + slow <= MaxErrors

hostRunSectionIndex ==
    \E sectionIndex \in -1..8, slow \in 0..TimedAssertions(runner.program) :
       /\ HostRunnable(slow)
       /\ runner' = DoHostRunSectionIndex(sectionIndex, slow,
                        HostCalled("runSection(int)", <<sectionIndex>>, runner))
       /\ UNCHANGED <<gpiovars, espvars, drivervars, config, logger, generator>>

hostRunSectionName ==
    \E sectionName \in {"Performance", "Edge Cases", "Pixel Operations",
                        "Logging Operations", "performance", "", "6"},
       slow \in 0..TimedAssertions(runner.program) :
       /\ HostRunnable(slow)
       /\ runner' = DoHostRunSectionName(sectionName, slow,
                        HostCalled("runSection(string)", <<sectionName>>, runner))
       /\ UNCHANGED <<gpiovars, espvars, drivervars, config, logger, generator>>

hostRunAllSections ==
    \E slow \in 0..TimedAssertions(runner.program) :
       /\ HostRunnable(slow)
       /\ runner' = DoHostRunAllSections(slow,
                        HostCalled("runAllSections", <<>>, runner))
       /\ UNCHANGED <<gpiovars, espvars, drivervars, config, logger, generator>>

\* The command lines, without the program name; the number after --index by
\* its characters.
HostCommandLines ==
    {<<>>, <<"--all">>, <<"-a">>, <<"--list">>, <<"-h">>, <<"--section">>,
     <<"--section", "Performance">>, <<"-s", "Edge Cases">>,
     <<"--section", "performance">>, <<"--index">>, <<"--verbose">>}
    \cup {<<"--index", text>> :
             text \in {<<"1">>, <<"0">>, <<"6">>, <<"8">>, <<"-", "1">>,
                       <<"4", "x">>, <<"x">>, <<>>}}

\* main runs in a new process.
hostMain ==
    \E argv \in HostCommandLines, slow \in 0..TimedAssertions(runner.program) :
       /\ HostRunnable(slow)
       /\ runner.call.op = "constructor"
       /\ runner' = DoHostMain(argv, slow, HostCalled("main", argv, runner))
       /\ UNCHANGED <<gpiovars, espvars, drivervars, config, logger, generator>>

\* The member functions of a runner in any order, or main on a new runner.
SpecHost ==
    InitHost /\ [][\/ hostRunSectionIndex
                   \/ hostRunSectionName
                   \/ hostRunAllSections
                   \/ hostMain]_vars

\* ------------------------------------------------------------ Logger calls

\* A Logger has been constructed.
InitLogger ==
    /\ InitOthers
    /\ config = DefaultConfig
    /\ NoHost

\* The buffer has room for the entries of another call.
LoggerRoom == Len(logger.logBuffer) < MaxBuffer

log ==
    \E level \in TRACE..FATAL, message \in {"", "m"} :
       /\ LoggerRoom
       /\ logger' = DoLog(level, message,
                          LoggerCalled("log", <<level, message>>, logger))
       /\ UNCHANGED <<gpiovars, espvars, drivervars, config, runner, generator>>

\* The six calls trace(message) .. fatal(message) in a row.
traceToFatal ==
    /\ LoggerRoom
    /\ logger' = TraceToFatal(TRACE, "m",
                              LoggerCalled("trace..fatal", <<"m">>, logger))
    /\ UNCHANGED <<gpiovars, espvars, drivervars, config, runner, generator>>

setLogLevel ==
    \E level \in TRACE..FATAL :
       /\ logger' = [LoggerCalled("setLogLevel", <<level>>, logger)
                        EXCEPT !.logLevel = level]
       /\ UNCHANGED <<gpiovars, espvars, drivervars, config, runner, generator>>

setEnabled ==
    \E state \in BOOLEAN :
       /\ logger' = [LoggerCalled("setEnabled", <<state>>, logger)
                        EXCEPT !.enabled = state]
       /\ UNCHANGED <<gpiovars, espvars, drivervars, config, runner, generator>>

clearBuffer ==
    /\ logger' = [LoggerCalled("clearBuffer", <<>>, logger)
                     EXCEPT !.logBuffer = <<>>]
    /\ UNCHANGED <<gpiovars, espvars, drivervars, config, runner, generator>>

\* The member functions of a Logger in any order.
SpecLogger ==
    InitLogger /\ [][\/ log
                     \/ traceToFatal
                     \/ setLogLevel
                     \/ setEnabled
                     \/ clearBuffer]_vars

\* ------------------------------------------------- AsciiArtGenerator calls

\* An AsciiArtGenerator has been constructed.
InitCanvas ==
    /\ InitOthers
    /\ config = DefaultConfig
    /\ runner = RunnerStart("ascii")
    /\ logger = LoggerStart
    /\ generator \in {AsciiArtGenerator(w, h, ".") : w, h \in 0..MaxSide}

\* The process runs and no call of drawLine is in progress.
CanvasIdle ==
    /\ generator.call.exit # "trapped"
    /\ ~generator.line.active

\* The coordinates callers pass: left of, on, and right of the canvas.
Coordinates == {-1, 0, 1, MaxSide}

setPixel ==
    \E x \in Coordinates, y \in Coordinates :
       /\ CanvasIdle
       /\ generator' = DoSetPixel(x, y, "#",
                           GeneratorCalled("setPixel", <<x, y, "#">>, generator))
       /\ UNCHANGED <<gpiovars, espvars, drivervars, config, runner, logger>>

clear ==
    /\ CanvasIdle
    /\ generator' = DoClear(GeneratorCalled("clear", <<>>, generator))
    /\ UNCHANGED <<gpiovars, espvars, drivervars, config, runner, logger>>

fill ==
    /\ CanvasIdle
    /\ generator' = DoFill("#", GeneratorCalled("fill", <<"#">>, generator))
    /\ UNCHANGED <<gpiovars, espvars, drivervars, config, runner, logger>>

resize ==
    \E newWidth \in {-1, 0, MaxSide}, newHeight \in {-1, 1, MaxSide} :
       /\ CanvasIdle
       /\ generator' = DoResize(newWidth, newHeight,
                           GeneratorCalled("resize", <<newWidth, newHeight>>,
                                           generator))
       /\ UNCHANGED <<gpiovars, espvars, drivervars, config, runner, logger>>

drawText ==
    \E x \in {-1, 0}, len \in 0..2 :
       /\ CanvasIdle
       /\ generator' = DoDrawText(x, 0, len, "#",
                           GeneratorCalled("drawText", <<x, 0, len, "#">>,
                                           generator))
       /\ UNCHANGED <<gpiovars, espvars, drivervars, config, runner, logger>>

\* drawRectangle with filled == true.
drawRectangle ==
    \E x2 \in {0, MaxSide}, y2 \in {-1, 0, MaxSide} :
       /\ CanvasIdle
       /\ generator' = DoDrawRectangle(0, 0, x2, y2, "#",
                           GeneratorCalled("drawRectangle",
                                           <<0, 0, x2, y2, "#", TRUE>>, generator))
       /\ UNCHANGED <<gpiovars, espvars, drivervars, config, runner, logger>>

drawCircle ==
    \E radius \in 0..1, filled \in BOOLEAN :
       /\ CanvasIdle
       /\ generator' = DoDrawCircle(1, 0, radius, "#", filled,
                           GeneratorCalled("drawCircle",
                                           <<1, 0, radius, "#", filled>>, generator))
       /\ UNCHANGED <<gpiovars, espvars, drivervars, config, runner, logger>>

\* drawLine is called and reaches its loop.
drawLine ==
    \E x1 \in {IntMin, 0, 1}, x2 \in {0, 1, IntMax}, y1 \in {0, 1}, y2 \in {0, 2},
       trap \in BOOLEAN :
       /\ CanvasIdle
       /\ generator' = DoDrawLine(x1, y1, x2, y2, "#", trap,
                           GeneratorCalled("drawLine", <<x1, y1, x2, y2, "#">>,
                                           generator))
       /\ UNCHANGED <<gpiovars, espvars, drivervars, config, runner, logger>>

\* The loop of drawLine makes one iteration.
drawLineStep ==
    \E trap \in BOOLEAN :
       /\ generator.line.active
       /\ generator' = DoDrawLineStep(trap, generator)
       /\ UNCHANGED <<gpiovars, espvars, drivervars, config, runner, logger>>

\* The member functions of an AsciiArtGenerator in any order.
SpecCanvas ==
    InitCanvas /\ [][\/ setPixel
                     \/ clear
                     \/ fill
                     \/ resize
                     \/ drawText
                     \/ drawRectangle
                     \/ drawCircle
                     \/ drawLine
                     \/ drawLineStep]_vars

\* The same, with a thread that keeps executing the loop it is in.
SpecCanvasFair ==
    /\ InitCanvas
    /\ [][\/ setPixel
          \/ clear
          \/ fill
          \/ resize
          \/ drawText
          \/ drawRectangle
          \/ drawCircle
          \/ drawLine
          \/ drawLineStep]_vars
    /\ WF_vars(drawLineStep)

\* ---------------------------------------------------------------- properties

\* The section a runSection call named.
Arg(c) == c.arg[1]

\* all_results is unchanged up to the position where the step started.
KeepsOldResults ==
    /\ Len(all_results') >= Len(all_results)
    /\ SubSeq(all_results', 1, Len(all_results)) = all_results

\* The test names of the results the step appended.
AppendedNames ==
    [i \in 1..(Len(all_results') - Len(all_results)) |->
        all_results'[Len(all_results) + i].test_name]

\* The callables of the sections of list L, in the order of L; a section that
\* is no key of the map has none, and with onlyEnabled a disabled one has none.
RECURSIVE TestsOfList(_, _)
TestsOfList(L, onlyEnabled) ==
    IF L = <<>> THEN <<>>
    ELSE (IF /\ Head(L) \in DOMAIN test_sections
             /\ (onlyEnabled => test_sections[Head(L)].enabled)
          THEN test_sections[Head(L)].tests ELSE <<>>)
         \o TestsOfList(Tail(L), onlyEnabled)

RECURSIVE SumOfCounts(_)
SumOfCounts(L) ==
    IF L = <<>> THEN 0 ELSE getSectionTestCount(Head(L)) + SumOfCounts(Tail(L))

\* C1: runSection(G) on a registered, enabled section G with N callables
\* invokes each callable once, in stored order, and appends exactly N results
\* to all_results in that order; the results already there keep their places.
C1_RunSectionRunsEachTestInOrder ==
    [][(/\ call'.op = "runSection"
        /\ Arg(call') \in DOMAIN test_sections
        /\ test_sections[Arg(call')].enabled)
       => /\ invoked' = test_sections[Arg(call')].tests
          /\ KeepsOldResults
          /\ Len(all_results') = Len(all_results) + getSectionTestCount(Arg(call'))
          /\ AppendedNames = test_sections[Arg(call')].tests]_vars

\* A five-test section was run on top of results recorded before.
C1_Witness ==
    /\ call.op = "runSection"
    /\ call.exit = "completed"
    /\ Arg(call) = BASIC_GPIO_OPERATIONS
    /\ results_before > 0
    /\ Len(invoked) = 5

\* C2: runSection(G) on a registered section G whose enabled flag is false
\* invokes no callable and leaves all_results, the counts and the total
\* execution time as they were.
C2_DisabledSectionIsNotRun ==
    [][(/\ call'.op = "runSection"
        /\ Arg(call') \in DOMAIN test_sections
        /\ ~test_sections[Arg(call')].enabled)
       => /\ invoked' = <<>>
          /\ all_results' = all_results
          /\ getTotalTestCount' = getTotalTestCount
          /\ getPassedTestCount' = getPassedTestCount
          /\ getFailedTestCount' = getFailedTestCount
          /\ getTotalExecutionTime' = getTotalExecutionTime]_vars

\* A disabled section with callables was named while results were recorded.
C2_Witness ==
    /\ call.op = "runSection"
    /\ call.exit = "disabled"
    /\ getSectionTestCount(Arg(call)) > 0
    /\ results_before > 0
    /\ Len(all_results) = results_before

\* C3: in every reachable state the passed and the failed count add up to the
\* total count, which is the number of entries of all_results.
C3_CountsAddUp ==
    /\ getPassedTestCount + getFailedTestCount = getTotalTestCount
    /\ getTotalTestCount = Len(all_results)

\* Results of two runs are recorded, a failed one among them.
C3_Witness ==
    /\ getFailedTestCount > 0
    /\ getPassedTestCount > 0
    /\ results_before > 0
    /\ getTotalTestCount > results_before

\* C4: a result with passed == false does not stop the run: after runSection
\* every callable stored after the failing one has been invoked and recorded,
\* and after runAllSections every enabled section registered after the
\* failing callable's section has been run in full.
C4_FailureDoesNotStopTheRun ==
    /\ (call.op = "runSection" /\ call.exit = "completed")
       => \A j \in 1..Len(invoked) :
            invoked[j] \in failing
            => LET tests == test_sections[Arg(call)].tests IN
               /\ Len(invoked) = Len(tests)
               /\ Len(all_results) = results_before + Len(tests)
               /\ \A i \in (j + 1)..Len(tests) :
                    /\ invoked[i] = tests[i]
                    /\ all_results[results_before + i].test_name = tests[i]
    /\ call.op = "runAllSections"
       => \A j \in 1..Len(invoked) :
            invoked[j] \in failing
            => \A section \in DOMAIN test_sections :
                 (/\ section > invoked[j][1]
                  /\ section # ALL_SECTIONS
                  /\ test_sections[section].enabled)
                 => \A k \in 1..Len(test_sections[section].tests) :
                      \E i \in (j + 1)..Len(invoked) :
                        /\ invoked[i] = test_sections[section].tests[k]
                        /\ all_results[results_before + i].test_name = invoked[i]

\* runAllSections met a failing callable that was not the last of its
\* section and went on to a later section.
C4_Witness ==
    /\ call.op = "runAllSections"
    /\ \E j \in 1..Len(invoked) :
         /\ invoked[j] \in failing
         /\ invoked[j][1] = BASIC_GPIO_OPERATIONS
         /\ invoked[j][2] < 5
         /\ \E i \in (j + 1)..Len(invoked) : invoked[i][1] = GPIO_EDGE_CASES

\* C5: runAllSections runs the sections enabled at the time of the call, each
\* once, in registration order; it appends as many results as those sections
\* have callables, so a disabled or empty section contributes none.
C5_RunAllRunsTheEnabledSections ==
    [][call'.op = "runAllSections"
       => /\ invoked' = TestsOfList(getEnabledSections, TRUE)
          /\ KeepsOldResults
          /\ AppendedNames = invoked'
          /\ Len(all_results') = Len(all_results) + SumOfCounts(getEnabledSections)]_vars

\* runAllSections ran two sections while the others were disabled.
C5_Witness ==
    /\ call.op = "runAllSections"
    /\ getEnabledSections = <<BASIC_GPIO_OPERATIONS, GPIO_EDGE_CASES>>
    /\ Len(invoked) = 9
    /\ Len(all_results) = results_before + 9

\* C6: results accumulate and are never cleared implicitly: a step of any
\* method but clearResults keeps the results recorded before and adds one per
\* callable it invoked; running an enabled section a second time right after
\* its first run on an empty all_results leaves twice its test count.
C6_ResultsAccumulate ==
    [][/\ call'.op # "clearResults"
          => /\ KeepsOldResults
             /\ Len(all_results') = Len(all_results) + Len(invoked')
       /\ (/\ call.op = "runSection" /\ call.exit = "completed"
           /\ results_before = 0
           /\ call'.op = "runSection" /\ call'.arg = call.arg)
          => getTotalTestCount' = 2 * getSectionTestCount(Arg(call))]_vars

\* The same five-test section was run twice in a row.
C6_Witness ==
    /\ call.op = "runSection"
    /\ Arg(call) = BASIC_GPIO_OPERATIONS
    /\ results_before = 5
    /\ getTotalTestCount = 10

\* C7: clearResults empties all_results, so that the total, passed and failed
\* counts and the total execution time are 0 and hasFailures is false, and it
\* changes no section's enabled flag, timeout or test list.
C7_ClearResultsResetsTheCounts ==
    [][call'.op = "clearResults"
       => /\ all_results' = <<>>
          /\ getTotalTestCount' = 0
          /\ getPassedTestCount' = 0
          /\ getFailedTestCount' = 0
          /\ getTotalExecutionTime' = 0
          /\ ~hasFailures'
          /\ test_sections' = test_sections]_vars

\* clearResults was called on recorded results, with a section disabled.
C7_Witness ==
    /\ call.op = "clearResults"
    /\ results_before > 1
    /\ ms > 0
    /\ \E section \in DOMAIN test_sections : ~test_sections[section].enabled

\* C8: runSection with an identifier that is no key of the registry invokes
\* no callable, leaves all_results and every section unchanged, prints no
\* summary, and returns through the not-found exit.
C8_UnknownSectionIsRejected ==
    [][(call'.op = "runSection" /\ Arg(call') \notin DOMAIN test_sections)
       => /\ invoked' = <<>>
          /\ rates' = <<>>
          /\ all_results' = all_results
          /\ test_sections' = test_sections
          /\ call'.exit = "not_found"]_vars

\* An unknown identifier was named while results were recorded.
C8_Witness ==
    /\ call.op = "runSection"
    /\ call.exit = "not_found"
    /\ Arg(call) \notin DOMAIN test_sections
    /\ results_before > 0
    /\ Len(all_results) = results_before

\* C9 as stated: runSelectedSections(L) runs the sections listed in L in the
\* given order whatever their enabled flags are.
C9_SelectedRunsRegardlessOfEnabled ==
    [][call'.op = "runSelectedSections"
       => invoked' = TestsOfList(call'.arg, FALSE)]_vars

\* C9 as the code has it: runSelectedSections(L) calls runSection for the
\* elements of L in the given order, so it runs the listed sections that are
\* enabled and skips those whose enabled flag is false or that are unknown.
C9_SelectedRunsTheEnabledOfTheList ==
    [][call'.op = "runSelectedSections"
       => /\ invoked' = TestsOfList(call'.arg, TRUE)
          /\ KeepsOldResults
          /\ AppendedNames = invoked']_vars

\* A list naming a disabled section and then an enabled one was run.
C9_Witness ==
    /\ call.op = "runSelectedSections"
    /\ call.arg = <<GPIO_EDGE_CASES, BASIC_GPIO_OPERATIONS>>
    /\ ~test_sections[GPIO_EDGE_CASES].enabled
    /\ test_sections[BASIC_GPIO_OPERATIONS].enabled
    /\ invoked = test_sections[BASIC_GPIO_OPERATIONS].tests

\* C10: the success rate printed for a section without tests, and for a run
\* without recorded results, is 0; no printed rate comes from a division by
\* zero.
C10_ZeroTestsGiveRateZero ==
    /\ \A i \in 1..Len(rates) : ~rates[i].nan /\ ~rates[i].inf
    /\ (/\ call.op = "runSection" /\ call.exit = "completed"
        /\ getSectionTestCount(Arg(call)) = 0)
       => rates = <<Finite(0)>>
    /\ (call.op \in {"runAllSections", "printOverallSummary"}
        /\ Len(all_results) = 0)
       => rates[Len(rates)] = Finite(0)

\* C11: getAverageExecutionTime returns 0 when all_results is empty, without
\* dividing; otherwise it returns the quotient of the total execution time
\* and the number of recorded results, a finite number.
C11_AverageOfNoResultsIsZero ==
    /\ ~getAverageExecutionTime.nan /\ ~getAverageExecutionTime.inf
    /\ all_results = <<>> => getAverageExecutionTime = Finite(0)
    /\ all_results # <<>> =>
          LET average == getAverageExecutionTime.value
          IN /\ average * Len(all_results) <= getTotalExecutionTime
             /\ getTotalExecutionTime < (average + 1) * Len(all_results)

\* Results that took time were recorded and then cleared: the average is
\* asked of an empty list.
C11_Witness ==
    /\ call.op = "clearResults"
    /\ results_before > 0
    /\ ms > 0
    /\ all_results = <<>>
    /\ getAverageExecutionTime = Finite(0)

\* C12: in every reachable state hasFailures() is true exactly when
\* getFailedTestCount() is greater than zero.
C12_HasFailuresIffFailedCountPositive ==
    hasFailures <=> (getFailedTestCount > 0)

\* The one failed result recorded is not the first result.
C12_Witness ==
    /\ hasFailures
    /\ getFailedTestCount = 1
    /\ all_results[1].passed

\* The listing methods.
ListingOps == {"listSections", "listEnabledSections", "getEnabledSections"}

\* The registered sections other than ALL_SECTIONS, in ascending key order,
\* which is the order of registration; only the enabled ones if onlyEnabled.
RegisteredInOrder(onlyEnabled) ==
    LET keep == {s \in DOMAIN test_sections \ {ALL_SECTIONS} :
                    onlyEnabled => test_sections[s].enabled}
    IN [i \in 1..Cardinality(keep) |->
           CHOOSE s \in keep : Cardinality({t \in keep : t < s}) = i - 1]

\* C13: the ALL_SECTIONS entry is skipped by every sweep over the registry:
\* runAllSections runs (and prints a summary for) the enabled sections other
\* than ALL_SECTIONS only, the listing methods never report ALL_SECTIONS, and
\* enableAllSections and disableAllSections leave its enabled flag as it was.
C13_SweepsSkipAllSections ==
    [][/\ (call'.op = "runAllSections" /\ call'.exit = "completed")
          => /\ Len(rates') = Len(RegisteredInOrder(TRUE)) + 1
             /\ \A i \in 1..Len(invoked') : invoked'[i][1] # ALL_SECTIONS
       /\ call'.op \in ListingOps
          => \A i \in 1..Len(listed') : listed'[i] # ALL_SECTIONS
       /\ call'.op \in {"enableAllSections", "disableAllSections"}
          => test_sections'[ALL_SECTIONS].enabled
               = test_sections[ALL_SECTIONS].enabled]_vars

\* enableAllSections was called on a registry whose ALL_SECTIONS entry was
\* disabled by name, and the entry is still disabled.
C13_Witness ==
    /\ call.op = "enableAllSections"
    /\ ~test_sections[ALL_SECTIONS].enabled
    /\ \A s \in DOMAIN test_sections \ {ALL_SECTIONS} : test_sections[s].enabled

\* C19: the listing methods are pure and idempotent: a call of
\* getEnabledSections, listSections or listEnabledSections changes neither
\* the registry nor all_results, what it reports is the registered (enabled)
\* sections in registration order, a function of the registry alone, and a
\* call that follows a call of the same method reports the same sequence.
C19_ListingIsPureAndIdempotent ==
    [][call'.op \in ListingOps
       => /\ test_sections' = test_sections
          /\ all_results' = all_results
          /\ listed' = RegisteredInOrder(call'.op # "listSections")
          /\ call.op = call'.op => listed' = listed]_vars

\* listSections was called on a registry with a disabled section and
\* recorded results, and reported all six sections.
C19_Witness ==
    /\ call.op = "listSections"
    /\ ~test_sections[GPIO_EDGE_CASES].enabled
    /\ all_results # <<>>
    /\ Len(listed) = 6

\* C14: a callable that throws during runSection is recorded as a result
\* with passed == false and the run continues with the next callable: every
\* callable of the section is invoked and has its result, and no exception
\* leaves runSection or runAllSections.
C14_ThrowIsRecordedAsFailure ==
    /\ call.exit # "threw"
    /\ (call.op = "runSection" /\ call.exit = "completed")
       => /\ invoked = test_sections[Arg(call)].tests
          /\ Len(all_results) = results_before + Len(invoked)
          /\ \A i \in 1..Len(invoked) :
                invoked[i] \in throwing
                  => ~all_results[results_before + i].passed

\* C15: an enable or disable command of the command line that names no
\* existing section changes no section's enabled flag.
C15_UnknownNameChangesNoFlag ==
    (/\ call.op = "main"
     /\ Len(call.arg) = 2
     /\ call.arg[1] \in {"enable", "disable"}
     /\ call.arg[2] \notin SectionNames)
    => \A s \in DOMAIN test_sections :
          test_sections[s].enabled = initializeTestSections[s].enabled

\* C16: the process exits with status zero exactly when every result the
\* command recorded has passed == true.
C16_ExitStatusTellsFailures ==
    exit_status # Running
    => ((exit_status = 0) <=> (\A i \in 1..Len(all_results) : all_results[i].passed))

\* C17: a section's timeout_seconds is never enforced: setSectionTimeout(G,
\* t) changes the timeout_seconds of G and nothing else, and whatever the
\* timeouts are, 0 and values below the measured time of a test included,
\* runSection invokes every callable of an enabled section and records for
\* each the pass/fail value the callable returned.
C17_TimeoutIsNeverEnforced ==
    [][/\ call'.op = "setSectionTimeout"
          => /\ all_results' = all_results
             /\ invoked' = <<>>
             /\ \A s \in DOMAIN test_sections :
                   test_sections'[s] =
                     IF s = call'.arg[1]
                     THEN [test_sections[s] EXCEPT !.timeout_seconds = call'.arg[2]]
                     ELSE test_sections[s]
             /\ DOMAIN test_sections' = DOMAIN test_sections
       /\ (call'.op = "runSection" /\ call'.exit = "completed")
          => /\ invoked' = test_sections[Arg(call')].tests
             /\ Len(all_results') = Len(all_results) + Len(invoked')
             /\ \A i \in 1..Len(invoked') :
                   all_results'[Len(all_results) + i].passed
                     = (invoked'[i] \notin failing)]_vars

\* A section whose timeout was set to 0 was run with callables that take
\* longer, and all its results are recorded as passed.
C17_Witness ==
    /\ call.op = "runSection"
    /\ Arg(call) = BASIC_GPIO_OPERATIONS
    /\ test_sections[BASIC_GPIO_OPERATIONS].timeout_seconds = 0
    /\ ms > 0
    /\ Len(invoked) = 5
    /\ \A i \in 1..Len(all_results) : all_results[i].passed

\* C18: every recorded result has the test_name, passed and message the
\* callable returned (passed == false with message "boom" is recorded as
\* that), and its execution_time_ms is the time the runner measured, which
\* is not negative, whatever duration the callable reported.
C18_ResultIsTheReturnedOneWithMeasuredTime ==
    \A i \in 1..Len(all_results) :
        LET result == all_results[i]
            returned == Callable(result.test_name, Env)
        IN /\ result.passed = returned.passed
           /\ result.message = returned.message
           /\ result.passed \/ result.message = "boom"
           /\ result.execution_time_ms = ms
           /\ result.execution_time_ms >= 0

\* A run recorded a failed result with the callable's message and a
\* measured time that is not the duration the callable reported, and the
\* names recorded are those of the callables invoked.
C18_Witness ==
    /\ call.op = "runSection"
    /\ Len(invoked) > 0
    /\ \A j \in 1..Len(invoked) :
          all_results[results_before + j].test_name = invoked[j]
    /\ \E i \in results_before + 1..Len(all_results) :
          /\ ~all_results[i].passed
          /\ all_results[i].message = FailedMessage
          /\ all_results[i].execution_time_ms # ReportedTime

\* C20: in the I2C, WiFi and Bluetooth harnesses passed_tests + failed_tests
\* equals total_tests for every section after run_test_section returned,
\* whether the init succeeded or failed and whichever checks passed, and the
\* totals print_test_results prints satisfy total_passed + total_failed =
\* total_tests.
C20_HarnessCountsAddUp ==
    /\ \A i \in 1..Len(esp_test_sections) :
          \/ esp_call.aborted /\ i = esp_call.arg[1]
          \/ esp_test_sections[i].passed_tests + esp_test_sections[i].failed_tests
               = esp_test_sections[i].total_tests
    /\ \A i \in 1..Len(esp_totals) :
          esp_totals[i].total_passed + esp_totals[i].total_failed
            = esp_totals[i].total_tests

\* run_test_section returned for a section with three tests whose init
\* failed: all three are counted as failed, after an earlier section had
\* passes and failures.
C20_Witness ==
    /\ esp_call.op = "run_test_section"
    /\ ~esp_call.arg[2]
    /\ esp_test_sections[esp_call.arg[1]].total_tests = 3
    /\ esp_test_sections[esp_call.arg[1]].failed_tests = 3
    /\ esp_test_sections[1].passed_tests = 1
    /\ esp_test_sections[1].failed_tests = 1

\* C21: in a section with a leading init, if the init step fails then no
\* test function of the section is invoked, failed_tests becomes equal to
\* total_tests, and the run goes on with the next enabled section.
C21_InitFailureFailsTheSectionAndGoesOn ==
    (esp_call.op = "run_test_section" /\ ~esp_call.arg[2])
    => /\ Len(esp_call.invoked) = 1
       /\ esp_test_sections[esp_call.arg[1]].failed_tests
            = esp_test_sections[esp_call.arg[1]].total_tests
       /\ ~esp_call.aborted

\* C22: the counters of a section describe its most recent run only:
\* run_test_section(i) starts from counters reset to 0, so after any number
\* of runs total_tests of section i is the fixed test count of its branch
\* and the passes and failures counted are at most that many, and the
\* entries of all other sections are left as they were.
C22_CountersDescribeTheLastRun ==
    [][esp_call'.op = "run_test_section"
       => LET i == esp_call'.arg[1]
              branch == BranchOf(harness, esp_test_sections[i].section_name)
          IN /\ esp_test_sections'[i].total_tests = branch.total_tests
             /\ esp_test_sections'[i].passed_tests
                  + esp_test_sections'[i].failed_tests <= branch.total_tests
             /\ \A j \in 1..Len(esp_test_sections) :
                   j # i => esp_test_sections'[j] = esp_test_sections[j]]_vars

\* A section that had been run before was run again, while another section
\* holds the counters of its own run.
C22_Witness ==
    /\ esp_call.op = "run_test_section"
    /\ esp_call.arg[1] = 2
    /\ esp_call.total_before > 0
    /\ esp_test_sections[2].total_tests = esp_call.total_before
    /\ esp_test_sections[1].total_tests = 2
    /\ esp_test_sections[1].failed_tests = 1

\* C23: in the WiFi event handler s_retry_num stays within 0..MAXIMUM_RETRY;
\* a STA_DISCONNECTED event reconnects and increments s_retry_num only while
\* s_retry_num < MAXIMUM_RETRY and otherwise sets WIFI_FAIL_BIT, so at most
\* MAXIMUM_RETRY reconnects are issued between two IP_EVENT_STA_GOT_IP
\* events, each of which resets s_retry_num to 0 and sets WIFI_CONNECTED_BIT.
C23_RetriesAreBounded ==
    [][ /\ wifi'.s_retry_num \in 0..MAXIMUM_RETRY
        /\ wifi'.reconnects <= MAXIMUM_RETRY
        /\ wifi'.call.op = "event_handler" =>
             LET event == wifi'.call.arg[1]
             IN  /\ event = "WIFI_EVENT_STA_DISCONNECTED" =>
                      IF wifi.s_retry_num < MAXIMUM_RETRY
                      THEN /\ wifi'.call.driver_calls = <<"esp_wifi_connect">>
                           /\ wifi'.s_retry_num = wifi.s_retry_num + 1
                           /\ wifi'.s_wifi_event_group = wifi.s_wifi_event_group
                      ELSE /\ wifi'.call.driver_calls = <<"xEventGroupSetBits">>
                           /\ wifi'.s_retry_num = wifi.s_retry_num
                           /\ "WIFI_FAIL_BIT" \in wifi'.s_wifi_event_group
                 /\ event = "IP_EVENT_STA_GOT_IP" =>
                      /\ wifi'.s_retry_num = 0
                      /\ "WIFI_CONNECTED_BIT" \in wifi'.s_wifi_event_group
      ]_vars

\* The retry limit was reached and the next disconnect set WIFI_FAIL_BIT.
C23_Witness ==
    /\ wifi.s_retry_num = MAXIMUM_RETRY
    /\ wifi.reconnects = MAXIMUM_RETRY
    /\ wifi.call.op = "event_handler"
    /\ wifi.call.arg[1] = "WIFI_EVENT_STA_DISCONNECTED"
    /\ wifi.call.driver_calls = <<"xEventGroupSetBits">>
    /\ "WIFI_FAIL_BIT" \in wifi.s_wifi_event_group

\* C24: no path of the WiFi harness clears WIFI_CONNECTED_BIT or
\* WIFI_FAIL_BIT, so a bit once set is seen by every later wait, and
\* test_wifi_timeout_handling returns ESP_OK only if no event has set either
\* bit at any earlier point of the run.
C24_EventBitsAreNeverCleared ==
    [][ /\ wifi.s_wifi_event_group \subseteq wifi'.s_wifi_event_group
        /\ wifi'.s_wifi_event_group = wifi'.ever_set
        /\ (wifi'.call.op = "test_wifi_timeout_handling"
              /\ wifi'.call.ret = "ESP_OK") => wifi'.ever_set = {}
      ]_vars

\* test_wifi_timeout_handling failed because an event had set a bit before.
C24_Witness ==
    /\ wifi.call.op = "test_wifi_timeout_handling"
    /\ wifi.call.ret = "ESP_FAIL"
    /\ wifi.ever_set # {}
    /\ wifi.s_wifi_event_group = wifi.ever_set

ListedInRange(sections) ==
    {sections[i] : i \in 1..Len(sections)} \cap (0..(SECTION_MAX - 1))

\* The results stored by the last call are those of the tests it executed,
\* and test_result_count counts them.
ResultsAreTheExecutedTests(p) ==
    /\ p.test_result_count = Len(p.test_results)
    /\ \E before \in 0..Len(p.test_results) :
         /\ Len(p.test_results) = before + Len(p.executed)
         /\ \A k \in 1..Len(p.executed) :
              /\ p.test_results[before + k].test_name = p.executed[k].test_name
              /\ p.test_results[before + k].passed = p.executed[k].passed

C27_ResultCountStaysInsideTheArray ==
    pwm.test_result_count <= TestResultsSize

\* The three tests that need an initialized PWM.
NeedInitializedPwm ==
    {"test_pwm_frequency_setting", "test_pwm_duty_cycle_setting",
     "test_pwm_output_validation"}

\* C28: test_pwm_frequency_setting, test_pwm_duty_cycle_setting and
\* test_pwm_output_validation issue no driver call and return false while
\* pwm_initialized is false; pwm_initialized becomes true only by a
\* test_pwm_initialization whose timer and channel configuration both
\* succeed, and false only by a successful test_pwm_cleanup; so a Basic run
\* that starts uninitialized with the Initialization group disabled records
\* the functionality and validation tests as failed.
C28_TestsNeedAnInitializedPwm ==
    [][ LET ex == pwm'.executed
        IN  /\ \A k \in 1..Len(ex) :
                 /\ ex[k].before =
                      (IF k = 1 THEN pwm.pwm_initialized ELSE ex[k - 1].after)
                 /\ (ex[k].fn \in NeedInitializedPwm /\ ~ex[k].before) =>
                      (~ex[k].passed /\ ex[k].driver_calls = <<>>)
                 /\ (~ex[k].before /\ ex[k].after) =>
                      /\ ex[k].fn = "test_pwm_initialization"
                      /\ ex[k].passed
                      /\ ex[k].driver_calls =
                           <<"ledc_timer_config", "ledc_channel_config">>
                 /\ (ex[k].before /\ ~ex[k].after) =>
                      (ex[k].fn = "test_pwm_cleanup" /\ ex[k].passed)
            /\ pwm'.pwm_initialized =
                 (IF ex = <<>> THEN pwm.pwm_initialized ELSE ex[Len(ex)].after)
            /\ ResultsAreTheExecutedTests(pwm')
            /\ (~pwm.pwm_initialized
                  /\ ~pwm'.test_group_enabled[GROUP_INITIALIZATION]) =>
                 \A k \in 1..Len(ex) :
                     ex[k].group \in {GROUP_FUNCTIONALITY, GROUP_VALIDATION} =>
                         ~ex[k].passed
      ]_vars

\* A run with the Initialization group disabled recorded the two
\* functionality tests and the validation test as failed, without a driver
\* call.
C28_Witness ==
    /\ pwm.call.op = "run_pwm_comprehensive_tests"
    /\ ~pwm.test_group_enabled[GROUP_INITIALIZATION]
    /\ Len(pwm.executed) >= 3
    /\ \A k \in 1..3 :
         /\ pwm.executed[k].fn \in NeedInitializedPwm
         /\ ~pwm.executed[k].before
         /\ pwm.executed[k].driver_calls = <<>>
         /\ ~pwm.test_results[k].passed

\* The number of elements of sequence q that satisfy Keep.
CountOf(q, Keep(_)) == Cardinality({k \in 1..Len(q) : Keep(q[k])})

C30_TestsStartInitializedAndBusCallsAlternate ==
    [][ /\ \A k \in 1..Len(spi'.starts) :
             spi'.starts[k].section # SECTION_INITIALIZATION =>
                 spi'.starts[k].spiInitialized
        /\ \A k \in 1..Len(spi'.spi_calls) :
             LET begun_before == IF k = 1 THEN spi.begun
                                 ELSE spi'.spi_calls[k - 1] = "begin"
             IN  spi'.spi_calls[k] = IF begun_before THEN "end" ELSE "begin"
        /\ spi'.begun = spi'.spiInitialized
      ]_vars

\* The Basic Operations section ran on the ended bus the Initialization
\* section had left: one spi.begin(), then four tests that found
\* spiInitialized true.
C30_Witness ==
    /\ spi.call.op = "runSection"
    /\ spi.call.arg = <<1>>
    /\ spi.spi_calls = <<"begin">>
    /\ Len(spi.starts) = 4
    /\ \A k \in 1..4 : spi.starts[k].spiInitialized
    /\ spi.sectionResults[SECTION_INITIALIZATION].passedTests = 2
    /\ spi.sectionResults[1].passedTests = 4

\* C31: in the SPI harness runTest turns a test function that terminates
\* abnormally into a result with passed == false and message "ERROR"; the
\* exception does not leave runTest, the remaining tests of the section still
\* run, and the result is counted in failedTests.
C31_ThrowBecomesAFailedResult ==
    [][ \A k \in 1..Len(spi'.starts) :
          LET x   == spi'.starts[k].section
              sec == spi'.sectionResults[x]
          IN  /\ Len(sec.results) = Len(SpiTests(x))
              /\ sec.totalTests = Len(SpiTests(x))
              /\ \A j \in 1..Len(SpiTests(x)) :
                   SpiTests(x)[j][1] \in spi'.throwing =>
                       sec.results[j] = [passed |-> FALSE, message |-> "ERROR"]
              /\ sec.failedTests =
                   Cardinality({j \in 1..Len(sec.results) : ~sec.results[j].passed})
              /\ sec.passedTests + sec.failedTests = sec.totalTests
      ]_vars

\* testSpiTransfer16 threw in a run of the Basic Operations section: its
\* result is the "ERROR" one, the two tests after it passed, one test failed.
C31_Witness ==
    /\ spi.throwing = {"testSpiTransfer16"}
    /\ spi.call.op = "runSection"
    /\ spi.call.arg = <<1>>
    /\ Len(spi.starts) = 4
    /\ spi.sectionResults[1].results[2].message = "ERROR"
    /\ spi.sectionResults[1].results[3].passed
    /\ spi.sectionResults[1].results[4].passed
    /\ spi.sectionResults[1].failedTests = 1

\* C32: in the SPI harness at most one results array per section is live at
\* any time: every TestResult array that runSection allocated is released
\* exactly once, by the next run of its section or by cleanupSpi.
C32_OneLiveResultsArrayPerSection ==
    spi.live = Cardinality({i \in DOMAIN spi.sectionResults :
                                spi.sectionResults[i].results # <<>>})

\* The line is the decimal numeral of a section.
IsSectionNumber(input) ==
    Len(input) = 1 /\ input[1] \in {"0", "1", "2", "3", "4", "5", "6"}

\* The line is one of the three commands, in any case.
IsCommand(input) ==
    \/ equalsIgnoreCase(input, <<"a", "l", "l">>)
    \/ equalsIgnoreCase(input, <<"h", "e", "l", "p">>)
    \/ equalsIgnoreCase(input, <<"q", "u", "i", "t">>)

\* C33: in the SPI command loop a line that is none of 'all', 'help', 'quit'
\* and no section number in 0..6 is rejected as an invalid command and runs
\* no section; a section is run only for 'all' and the numbers 0..6.
C33_OtherLinesAreRejected ==
    [][ spi'.call.op = "loop" =>
          LET input == spi'.call.arg[1]
          IN  /\ (~IsCommand(input) /\ ~IsSectionNumber(input)) =>
                   (spi'.call.invalid /\ spi'.starts = <<>>)
              /\ spi'.starts # <<>> =>
                   \/ equalsIgnoreCase(input, <<"a", "l", "l">>)
                   \/ IsSectionNumber(input)
      ]_vars

\* The last call was runAllSections, made directly or by main.
RanAllSections(c) ==
    \/ c.op = "runAllSections"
    \/ c.op = "main" /\ (c.arg = <<>> \/ c.arg[1] \in {"--all", "-a"})

\* C34: in the ASCII-art and Logger runners runAllSections runs every
\* registered section exactly once in registration order, also after an
\* earlier section failed, and returns true exactly when every run() returned
\* true; main exits with status 0 in exactly that case and with a non-zero
\* status otherwise.
C34_RunAllRunsEverySectionAndTellsTheOutcome ==
    [][ RanAllSections(runner'.call) =>
          LET c   == runner'.call
              all == \A k \in 1..Len(c.ran) : c.ran[k].returned
          IN  /\ [k \in 1..Len(c.ran) |-> c.ran[k].index] =
                 [k \in 1..Len(runner'.testSections) |-> k]
              /\ c.ret = all
              /\ c.op = "main" =>
                    /\ runner'.exit = 0 <=> all
                    /\ runner'.exit \in {0, 1}
      ]_vars

\* main --all in which the Performance section, the sixth of seven, failed:
\* the seventh ran all the same and the status is 1.
C34_Witness ==
    /\ runner.program = "ascii"
    /\ runner.call.op = "main"
    /\ runner.call.arg = <<"--all">>
    /\ Len(runner.call.ran) = 7
    /\ ~runner.call.ran[6].returned
    /\ runner.call.ran[7].returned
    /\ runner.exit = 1

\* The registered names.
RegisteredNames(r) == {r.testSections[i].name : i \in 1..Len(r.testSections)}

\* C35: in the ASCII-art and Logger runners runSection(index) accepts exactly
\* the indices 1..N and runSection(name) exactly the registered names: an
\* accepted call runs that one section; any other runs no section, returns
\* false and leaves sectionResults unchanged.
C35_RunSectionAcceptsExactlyTheRegistered ==
    [][ LET c == runner'.call
            N == Len(runner'.testSections)
            accepted ==
                \/ c.op = "runSection(int)" /\ c.arg[1] \in 1..N
                \/ c.op = "runSection(string)" /\ c.arg[1] \in RegisteredNames(runner)
        IN  c.op \in {"runSection(int)", "runSection(string)"} =>
              IF accepted
              THEN /\ Len(c.ran) = 1
                   /\ c.op = "runSection(int)" => c.ran[1].index = c.arg[1]
                   /\ c.op = "runSection(string)" =>
                        runner'.testSections[c.ran[1].index].name = c.arg[1]
                   /\ c.ret = c.ran[1].returned
                   /\ runner'.sectionResults[
                          runner'.testSections[c.ran[1].index].name] = c.ret
              ELSE /\ c.ran = <<>>
                   /\ c.ret = FALSE
                   /\ runner'.sectionResults = runner.sectionResults
                   /\ runner'.testSections = runner.testSections
      ]_vars

\* runSection(0) was called on a Logger runner that holds a result: it ran
\* nothing, returned false and left the result of Edge Cases as it was.
C35_Witness ==
    /\ runner.program = "logger"
    /\ runner.call.op = "runSection(int)"
    /\ runner.call.arg = <<0>>
    /\ runner.call.ran = <<>>
    /\ ~runner.call.ret
    /\ DOMAIN runner.sectionResults = {"Edge Cases"}
    /\ runner.sectionResults["Edge Cases"]

\* C36: in the ASCII-art and Logger runners a section's passed flag is a
\* latch: true after construction, false from the first failed assertion on
\* and never true again, while errors only grows; so every run() of a section
\* object that has failed before returns false, also when every assertion of
\* that run holds.
C36_PassedIsALatch ==
    [][ /\ runner.call.op = "constructor" =>
             \A i \in 1..Len(runner.testSections) : runner.testSections[i].passed
        /\ \A i \in 1..Len(runner.testSections) :
             LET old == runner.testSections[i]
                 new == runner'.testSections[i]
             IN  /\ ~old.passed => ~new.passed
                 /\ Len(new.errors) >= Len(old.errors)
                 /\ SubSeq(new.errors, 1, Len(old.errors)) = old.errors
                 /\ Len(new.errors) > Len(old.errors) => ~new.passed
        /\ \A k \in 1..Len(runner'.call.ran) :
             LET t == runner'.call.ran[k]
             IN  /\ ~t.held => ~t.returned
                 /\ ~runner.testSections[t.index].passed => ~t.returned
      ]_vars

\* The Performance section failed in an earlier call; in this call all its
\* assertions held and its run() returned false.
C36_Witness ==
    /\ runner.call.op = "runSection(string)"
    /\ runner.call.arg = <<"Performance">>
    /\ Len(runner.call.ran) = 1
    /\ runner.call.ran[1].held
    /\ ~runner.call.ran[1].returned

\* C37: the GPIO runner's TestConfig has no effect on execution: whatever
\* stop_on_failure, verbose_output, generate_report and
\* default_timeout_seconds are, set by the constructor or by setConfig,
\* runSection and runAllSections invoke every test of the enabled sections
\* they cover and record one result for each; setConfig changes neither the
\* sections nor the results.
C37_ConfigHasNoEffect ==
    [][ /\ (call'.op = "runSection" /\ Arg(call') \in DOMAIN test_sections)
           => invoked' = TestsOfList(<<Arg(call')>>, TRUE)
        /\ call'.op = "runAllSections"
           => invoked' = TestsOfList(getEnabledSections, TRUE)
        /\ call'.op \in {"runSection", "runAllSections"}
           => /\ KeepsOldResults
              /\ AppendedNames = invoked'
              /\ \A i \in 1..Len(invoked') :
                   all_results'[Len(all_results) + i].passed
                       = (invoked'[i] \notin failing)
        /\ call'.op = "setConfig"
           => UNCHANGED <<test_sections, all_results>>
      ]_vars

\* With stop_on_failure set by setConfig, the first test of a section failed
\* and the other four ran.
C37_Witness ==
    /\ config.stop_on_failure
    /\ config.default_timeout_seconds = 0
    /\ call.op = "runSection"
    /\ Arg(call) = BASIC_GPIO_OPERATIONS
    /\ Len(invoked) = 5
    /\ invoked[1] \in failing
    /\ results_before > 0

\* The level strings of the entries a step appended to the log buffer.
AppendedLevels ==
    [k \in 1..(Len(logger'.logBuffer) - Len(logger.logBuffer)) |->
        logger'.logBuffer[Len(logger.logBuffer) + k][2]]

\* C38: Logger::log(level, msg) appends exactly one entry to the buffer when
\* the logger is enabled and level >= the current log level and leaves the
\* buffer unchanged otherwise; entries stay in call order, so with level WARN
\* the six calls trace..fatal append exactly the WARN, ERROR and FATAL
\* entries in that order; clearBuffer empties the buffer and changes neither
\* the level nor the enabled flag.
C38_LogAppendsIffEnabledAndAtLevel ==
    [][ LET c == logger'.call
            keeps == /\ Len(logger'.logBuffer) >= Len(logger.logBuffer)
                     /\ SubSeq(logger'.logBuffer, 1, Len(logger.logBuffer))
                            = logger.logBuffer
        IN  /\ c.op = "log" =>
                 /\ keeps
                 /\ IF logger.enabled /\ c.arg[1] >= logger.logLevel
                    THEN /\ AppendedLevels = <<LevelStr(c.arg[1])>>
                         /\ logger'.logBuffer[Len(logger'.logBuffer)][6] = c.arg[2]
                    ELSE logger'.logBuffer = logger.logBuffer
            /\ (c.op = "trace..fatal" /\ logger.enabled /\ logger.logLevel = WARN) =>
                 /\ keeps
                 /\ AppendedLevels = <<"WARN", "ERROR", "FATAL">>
            /\ c.op = "clearBuffer" => logger'.logBuffer = <<>>
            /\ c.op \in {"log", "trace..fatal", "clearBuffer"} =>
                 /\ logger'.logLevel = logger.logLevel
                 /\ logger'.enabled = logger.enabled
      ]_vars

\* After setLogLevel(WARN) the six calls were made on a buffer that held an
\* entry: it holds that entry and the WARN, ERROR and FATAL ones.
C38_Witness ==
    /\ logger.call.op = "trace..fatal"
    /\ logger.enabled
    /\ logger.logLevel = WARN
    /\ Len(logger.logBuffer) = 4
    /\ logger.logBuffer[1][2] = "INFO"
    /\ logger.logBuffer[2][2] = "WARN"
    /\ logger.logBuffer[4][2] = "FATAL"

\* C39: setPixel(x, y, ch) with x or y outside the canvas, negative
\* coordinates included, leaves the whole canvas unchanged and getPixel there
\* returns '\0'; inside the canvas it changes exactly the cell (x, y); and
\* after every call of setPixel, draw*, clear, fill and resize the length of
\* the canvas is width * height.
C39_CanvasIsWidthTimesHeight ==
    [][ LET c == generator'.call
            x == c.arg[1]
            y == c.arg[2]
            inside == /\ x >= 0 /\ x < generator.width
                      /\ y >= 0 /\ y < generator.height
        IN  /\ c.op = "setPixel" =>
                 IF inside
                 THEN /\ getPixel(x, y, generator') = c.arg[3]
                      /\ \A k \in DOMAIN generator.canvas :
                           k # y * generator.width + x + 1
                           => generator'.canvas[k] = generator.canvas[k]
                 ELSE /\ generator'.canvas = generator.canvas
                      /\ getPixel(x, y, generator') = "NUL"
            /\ Len(generator'.canvas) = generator'.width * generator'.height
      ]_vars

\* C40: drawLine(x1, y1, x2, y2, ch) terminates for every pair of integer
\* endpoints, and when it returns both endpoints, if inside the canvas, hold
\* ch, and so does every cell between them when the line is horizontal or
\* vertical.
C40_DrawLineTerminates ==
    /\ generator.line.active ~> ~generator.line.active
    /\ [][ (/\ generator.line.active
            /\ ~generator'.line.active
            /\ generator'.call.exit = "returned")
           => LET a == generator'.call.arg
                  lo(u, v) == IF u < v THEN u ELSE v
                  hi(u, v) == IF u < v THEN v ELSE u
                  drawn(x, y) ==
                      getPixel(x, y, generator') \in {"NUL", a[5]}
              IN  /\ drawn(a[1], a[2])
                  /\ drawn(a[3], a[4])
                  /\ a[2] = a[4] =>
                       \A x \in lo(a[1], a[3])..hi(a[1], a[3]) : drawn(x, a[2])
                  /\ a[1] = a[3] =>
                       \A y \in lo(a[2], a[4])..hi(a[2], a[4]) : drawn(a[1], y)
         ]_vars

====
